---- MODULE Spec2Model ----
(***************************************************************************)
(* A model of qtimaker's QTI 2.1 generator, assessment_v2                  *)
(* (src/qtimaker/xml_assessment_v2.py).  The generated document is kept as *)
(* the list of template instances the code appends to `xml`, each one a    *)
(* record holding the values the code formats into the template.           *)
(***************************************************************************)
EXTENDS Integers, Sequences, FiniteSets, TLC

VARIABLES
  quiz,             \* assessment_v2: the Quiz it was called with
  pc,               \* assessment_v2: where the call is
  i,                \* assessment_v2: the entry the running loop is at
  points_possible,  \* assessment_v2: the local points_possible
  xml,              \* assessment_v2: the local list xml
  result,           \* assessment_v2: what the call returned or raised
  session,          \* a candidate's response to one item, once processed
  request,          \* generate_quiz: the request it was called with
  route,            \* generate_quiz: position, quiz_text, files, response
  calls,            \* the frames of concurrent assessment_v2 calls
  gemini,           \* generate_with_gemini: attempt, model responses, return
  generation,       \* generate_questions_with_docling: loop and response
  chunking,         \* DoclingService._chunk_text: text, start, index, chunks
  upload            \* upload_document: the file, the storage, the response

vars == <<quiz, pc, i, points_possible, xml, result, session, request, route, calls,
          gemini, generation, chunking, upload>>

(* ------------------------------ bounds -------------------------------- *)

\* longest list of entries in quiz.questions_and_delims
MaxEntries == 4
\* largest points_possible / points_per_question
MaxPoints == 2
\* largest number of choices (or accepted answers) of one question
MaxChoices == 3
\* largest bound of a numerical question
MaxNum == 1
\* longest list of questions in a request to generate_quiz
MaxQuestions == 2
\* longest list of entries of the quizzes of concurrent calls
MaxCallEntries == 2
\* largest num_questions of a QuestionGenerationRequest
MaxNumQuestions == 4
\* most chunks split_text_simple returns
MaxChunks == 2
\* longest text given to _chunk_text, in characters
MaxTextLen == 4000
\* most calls of upload_document in a row
MaxUploads == 2

(* --------------------------- optional values --------------------------- *)

\* Python's None
None == <<>>

\* a value that is not None
Some(v) == <<v>>

(* ------------------------------ the Quiz ------------------------------- *)

Points == 0..MaxPoints

QuestionTypes ==
  {"true_false_question", "multiple_choice_question", "multiple_answers_question",
   "short_answer_question", "numerical_question", "essay_question",
   "file_upload_question"}

\* choice k of a question: its id, its correct flag, its text
Choice(k, correct) == [id |-> k, correct |-> correct, choice_xml |-> <<"text", k>>]

\* the choice lists with n choices of which the ones in S are marked correct
Choices(n, S) == [k \in 1..n |-> Choice(k, k \in S)]

\* the choice lists a question of type t may carry
ChoicesOf(t) ==
  CASE t = "true_false_question" ->
         {Choices(2, {c}) : c \in 1..2}
    [] t = "multiple_choice_question" ->
         UNION {{Choices(n, {c}) : c \in 1..n} : n \in 2..MaxChoices}
    [] t = "multiple_answers_question" ->
         UNION {{Choices(n, S) : S \in (SUBSET (1..n)) \ {{}}} : n \in 2..MaxChoices}
    [] t = "short_answer_question" ->
         {Choices(n, 1..n) : n \in 1..MaxChoices}
    [] OTHER -> {<<>>}

\* exact value, min and max of a numerical question: either a range with no
\* exact value, or an exact value inside [min, max]
Numericals ==
  {[exact |-> e, min |-> lo, max |-> hi] :
     <<e, lo, hi>> \in {t \in ({None} \cup {Some(v) : v \in 0..MaxNum})
                              \X (0..MaxNum) \X (0..MaxNum) :
                          /\ t[2] <= t[3]
                          /\ t[1] # None => (t[2] <= t[1][1] /\ t[1][1] <= t[3])}}

NoNumerical == [exact |-> None, min |-> 0, max |-> 0]

NumericalsOf(t) == IF t = "numerical_question" THEN Numericals ELSE {NoNumerical}

\* a feedback text that is unset or set
Feedback(name) == {None, Some(name)}

Question(t, pts, ch, num, cf, inf, gf) ==
  [kind |-> "Question", id |-> 0, type |-> t, points_possible |-> pts,
   choices |-> ch,
   numerical_exact |-> num.exact, numerical_exact_html_xml |-> num.exact,
   numerical_min_html_xml |-> num.min, numerical_max_html_xml |-> num.max,
   correct_feedback_raw |-> cf, incorrect_feedback_raw |-> inf, feedback_raw |-> gf]

\* every question of the bounded model
Questions ==
  UNION {{Question(t, pts, ch, num, cf, inf, gf) :
            pts \in Points, ch \in ChoicesOf(t), num \in NumericalsOf(t),
            cf \in Feedback("correct"), inf \in Feedback("incorrect"),
            gf \in Feedback("general")} : t \in QuestionTypes}

\* the questions without feedback whose type is multiple choice with two
\* choices, the first one correct: the questions of the longer quizzes
PlainQuestions ==
  {Question("multiple_choice_question", pts, Choices(2, {1}), NoNumerical,
            None, None, None) : pts \in Points}

Group(pick, ppq) == [id |-> 0, pick |-> pick, points_per_question |-> ppq]

GroupStart(pick, ppq) == [kind |-> "GroupStart", group |-> Group(pick, ppq)]

GroupEnd == [kind |-> "GroupEnd"]

TextRegion == [kind |-> "TextRegion", id |-> 0]

\* a group of n questions: GroupStart, the questions, GroupEnd, with
\* pick <= n (invariant 3 of the Quiz Model)
GroupRuns(n) ==
  {<<GroupStart(pick, ppq)>> \o qs \o <<GroupEnd>> :
     pick \in 1..n, ppq \in Points, qs \in [1..n -> PlainQuestions]}

\* the runs of n entries that can start a list of entries: a question, a
\* text region, or a whole group (groups are flat and matched)
Runs(n) ==
  IF n = 1 THEN {<<q>> : q \in PlainQuestions} \cup {<<TextRegion>>}
  ELSE IF n >= 3 THEN GroupRuns(n - 2)
  ELSE {}

RECURSIVE EntryLists(_)
\* the well-formed lists of exactly n entries
EntryLists(n) ==
  IF n = 0 THEN {<<>>}
  ELSE UNION {{r \o rest : r \in Runs(k), rest \in EntryLists(n - k)} : k \in 1..n}

\* the number of entries of kind `kind` among the first n entries
RECURSIVE CountKind(_, _, _)
CountKind(entries, kind, n) ==
  IF n = 0 THEN 0
  ELSE CountKind(entries, kind, n - 1) + (IF entries[n].kind = kind THEN 1 ELSE 0)

\* ids are assigned by entry position, separately for questions, groups and
\* text regions
AssignIds(entries) ==
  [n \in 1..Len(entries) |->
     LET x == entries[n]
         id == CountKind(entries, x.kind, n)
     IN CASE x.kind = "Question" -> [x EXCEPT !.id = id]
          [] x.kind = "TextRegion" -> [x EXCEPT !.id = id]
          [] x.kind = "GroupStart" -> [x EXCEPT !.group.id = id]
          [] OTHER -> x]

\* the lists of entries of the bounded model: every single question, and
\* every well-formed list of at most MaxEntries plain entries
EntryListSet ==
  {AssignIds(<<q>>) : q \in Questions}
    \cup {AssignIds(es) : es \in UNION {EntryLists(n) : n \in 0..MaxEntries}}

\* a question of a type outside the seven of QuestionTypes
UnknownQuestion == Question("matching_question", 1, <<>>, NoNumerical, None, None, None)

\* an entry that is no Question, GroupStart, GroupEnd or TextRegion
OtherEntry == [kind |-> "Other"]

\* the lists that end, after a well-formed list, in an entry assessment_v2
\* does not cover
UncoveredListSet ==
  {AssignIds(es \o <<x>>) :
     es \in UNION {EntryLists(n) : n \in 0..(MaxEntries - 2)},
     x \in {UnknownQuestion, OtherEntry}}

Quiz(entries, shuffle) ==
  [questions_and_delims |-> entries,
   shuffle_answers_xml |-> IF shuffle THEN "true" ELSE "false"]

QuizSet == {Quiz(es, sh) : es \in EntryListSet \cup UncoveredListSet, sh \in BOOLEAN}

(* ------------------------- isinstance tests --------------------------- *)

IsQuestion(x) == x.kind = "Question"

IsGroupStart(x) == x.kind = "GroupStart"

IsGroupEnd(x) == x.kind = "GroupEnd"

IsTextRegion(x) == x.kind = "TextRegion"

(* --------------------- assessment_v2: the points ---------------------- *)

\* AddPoints with a text region counted as one point
AddPoints_CountsTextRegion(total, x) ==
  IF IsQuestion(x) THEN total + x.points_possible
  ELSE IF IsGroupStart(x) THEN total + x.group.points_per_question * x.group.pick
  ELSE IF IsTextRegion(x) THEN total + 1
  ELSE total

\* one iteration of the loop that calculates the total points for MAXSCORE
AddPoints(total, x) ==
  IF IsQuestion(x) THEN total + x.points_possible
  ELSE IF IsGroupStart(x) THEN total + x.group.points_per_question * x.group.pick
  ELSE total

\* the loop over the first n entries
RECURSIVE TotalPoints(_, _)
TotalPoints(entries, n) ==
  IF n = 0 THEN 0 ELSE AddPoints(TotalPoints(entries, n - 1), entries[n])

(* --------------------------- the templates ---------------------------- *)

\* f'{prefix}{id}': the pair stands for the concatenated string, and
\* f'{id}' for the id alone
Ident(prefix, id) == <<prefix, id>>

BEFORE_ITEMS(assessment_identifier, title) ==
  [tag |-> "BEFORE_ITEMS", identifier |-> assessment_identifier, title |-> title]

AFTER_ITEMS(total) == [tag |-> "AFTER_ITEMS", MAXSCORE |-> total]

GROUP_START(ident, pick, points_per_item) ==
  [tag |-> "GROUP_START", identifier |-> ident, selectionNumber |-> pick,
   points_per_item |-> points_per_item]

GROUP_END == [tag |-> "GROUP_END"]

START_ITEM(question_identifier) ==
  [tag |-> "START_ITEM", identifier |-> question_identifier]

END_ITEM == [tag |-> "END_ITEM"]

\* the responseDeclaration of RESPONSE and the outcomeDeclarations of SCORE
\* (default 0) and MAXSCORE; response_declaration_body is the list of the
\* correctResponse values
ITEM_METADATA(base_type, cardinality, response_declaration_body, pts) ==
  [tag |-> "ITEM_METADATA", baseType |-> base_type, cardinality |-> cardinality,
   correctResponse |-> response_declaration_body, SCORE |-> 0, MAXSCORE |-> pts]

\* the outcomeDeclaration of SCORE (default 0) of a text item
TEXT_OUTCOME == [tag |-> "OUTCOME_DECLARATION", SCORE |-> 0]

ITEM_BODY_CHOICE(ident) == ident

ITEM_BODY_MCTF(shuffle, choices) ==
  [tag |-> "ITEM_BODY", interaction |-> "choiceInteraction", shuffle |-> shuffle,
   maxChoices |-> 1, choices |-> choices]

ITEM_BODY_MULTANS(shuffle, max_choices, choices) ==
  [tag |-> "ITEM_BODY", interaction |-> "choiceInteraction", shuffle |-> shuffle,
   maxChoices |-> max_choices, choices |-> choices]

ITEM_BODY_SHORTANS ==
  [tag |-> "ITEM_BODY", interaction |-> "textEntryInteraction", baseType |-> "string"]

ITEM_BODY_NUM ==
  [tag |-> "ITEM_BODY", interaction |-> "textEntryInteraction", baseType |-> "float"]

ITEM_BODY_ESSAY == [tag |-> "ITEM_BODY", interaction |-> "extendedTextInteraction"]

ITEM_BODY_UPLOAD == [tag |-> "ITEM_BODY", interaction |-> "uploadInteraction"]

\* the itemBody of a text item: a paragraph, no interaction
TEXT_BODY == [tag |-> "ITEM_BODY", interaction |-> "none"]

\* <setOutcomeValue identifier="SCORE"><sum>SCORE, pts</sum>
\* AddToScore with the points added twice
AddToScore_Twice(pts) == [identifier |-> "SCORE", op |-> "sum", value |-> pts + pts]

AddToScore(pts) == [identifier |-> "SCORE", op |-> "sum", value |-> pts]

\* <setOutcomeValue identifier="SCORE"><baseValue>v</baseValue>
SetScore(v) == [identifier |-> "SCORE", op |-> "set", value |-> v]

\* <setOutcomeValue identifier="FEEDBACK"><baseValue>feedback</baseValue>
SetFeedback(feedback) == [identifier |-> "FEEDBACK", op |-> "set", value |-> feedback]

FEEDBACK_CORRECT(feedback) == <<SetFeedback(feedback)>>

FEEDBACK_INCORRECT(feedback) ==
  <<[tag |-> "responseElse", actions |-> <<SetFeedback(feedback)>>]>>

FEEDBACK_GENERAL(feedback) ==
  <<[tag |-> "responseElse", actions |-> <<SetFeedback(feedback)>>]>>

MATCH_CONDITION(ident) == [op |-> "match", baseType |-> "identifier", value |-> ident]

VARQUAL_CONDITION(answer_xml) ==
  [op |-> "match", baseType |-> "string", value |-> answer_xml]

\* a responseProcessing with one responseCondition: a responseIf with the
\* condition, the SCORE assignment and the correct feedback, followed by
\* what the incorrect and the general feedback format to
ResponseProcessing(condition, score, correct_feedback, incorrect_feedback, general_feedback) ==
  [tag |-> "RESPONSE_PROCESSING",
   responseCondition |->
     <<[tag |-> "responseIf", condition |-> condition,
        actions |-> <<score>> \o correct_feedback]>>
       \o incorrect_feedback \o general_feedback]

RESPONSE_PROCESSING_MCTF(pts, correct_feedback, incorrect_feedback, general_feedback) ==
  ResponseProcessing([op |-> "match_correct"], AddToScore(pts),
                     correct_feedback, incorrect_feedback, general_feedback)

RESPONSE_PROCESSING_MULTANS(match_conditions, pts, correct_feedback, incorrect_feedback, general_feedback) ==
  ResponseProcessing([op |-> "and", args |-> match_conditions], AddToScore(pts),
                     correct_feedback, incorrect_feedback, general_feedback)

RESPONSE_PROCESSING_SHORTANS(varequal_conditions, pts, correct_feedback, incorrect_feedback, general_feedback) ==
  ResponseProcessing([op |-> "or", args |-> varequal_conditions], AddToScore(pts),
                     correct_feedback, incorrect_feedback, general_feedback)

RESPONSE_PROCESSING_NUM(num_min, num_max, pts, correct_feedback, incorrect_feedback, general_feedback) ==
  ResponseProcessing([op |-> "and",
                      args |-> <<[op |-> "gte", value |-> num_min],
                                 [op |-> "lte", value |-> num_max]>>],
                     AddToScore(pts),
                     correct_feedback, incorrect_feedback, general_feedback)

\* RESPONSE_PROCESSING_ESSAY with the SCORE sum of the other templates
RESPONSE_PROCESSING_ESSAY_AddsPoints(general_feedback) ==
  ResponseProcessing([op |-> "isNull"], AddToScore(1), <<>>, <<>>, general_feedback)

RESPONSE_PROCESSING_ESSAY(general_feedback) ==
  ResponseProcessing([op |-> "isNull"], SetScore(0), <<>>, <<>>, general_feedback)

RESPONSE_PROCESSING_UPLOAD(general_feedback) == RESPONSE_PROCESSING_ESSAY(general_feedback)

\* the responseProcessing of a text item: <responseCondition/>
TEXT_RESPONSE_PROCESSING == [tag |-> "RESPONSE_PROCESSING", responseCondition |-> <<>>]

(* ------------------- assessment_v2: one question ---------------------- *)

\* raise e
Raise(e) == [tag |-> "raise", error |-> e]

ChoiceTypes ==
  {"true_false_question", "multiple_choice_question", "multiple_answers_question"}

\* IsCorrect without the test of the correct flag
IsCorrect_Always(choice) == TRUE

IsCorrect(choice) == choice.correct

\* the value written into the correctResponse of a correct choice
CorrectResponseValue(choice) == Ident("", choice.id)

\* base type, cardinality and correctResponse values of the response
\* declaration, by question type
ResponseDeclaration(question) ==
  IF question.type \in ChoiceTypes
  THEN [base_type |-> "identifier",
        cardinality |-> IF question.type = "multiple_answers_question"
                        THEN "multiple" ELSE "single",
        body |-> LET correct == SelectSeq(question.choices, IsCorrect)
                 IN [k \in 1..Len(correct) |-> CorrectResponseValue(correct[k])]]
  ELSE IF question.type = "short_answer_question"
  THEN [base_type |-> "string", cardinality |-> "single",
        body |-> [k \in 1..Len(question.choices) |-> question.choices[k].choice_xml]]
  ELSE IF question.type = "numerical_question"
  THEN [base_type |-> "float", cardinality |-> "single",
        body |-> IF question.numerical_exact # None
                 THEN <<question.numerical_exact_html_xml[1]>>
                 ELSE <<question.numerical_min_html_xml>>]
  ELSE [base_type |-> "string", cardinality |-> "single", body |-> <<>>]

\* ItemMetadata without the test of the question type
ItemMetadata_Always(question) ==
  LET d == ResponseDeclaration(question)
  IN <<ITEM_METADATA(d.base_type, d.cardinality, d.body, question.points_possible)>>

\* ITEM_METADATA is appended for every type but essay and file upload
ItemMetadata(question) ==
  IF question.type \notin {"essay_question", "file_upload_question"}
  THEN LET d == ResponseDeclaration(question)
       IN <<ITEM_METADATA(d.base_type, d.cardinality, d.body, question.points_possible)>>
  ELSE <<>>

\* Shuffle without the test of the quiz flag
Shuffle_AlwaysFalse(q) == "false"

Shuffle(q) == IF q.shuffle_answers_xml = "true" THEN "true" ELSE "false"

\* the simpleChoice identifiers of the choices of a question
ItemChoices(question) ==
  [k \in 1..Len(question.choices) |->
     ITEM_BODY_CHOICE(Ident("qtimaker_choice_", question.choices[k].id))]

ItemBody(q, question) ==
  CASE question.type \in {"true_false_question", "multiple_choice_question"} ->
         ITEM_BODY_MCTF(Shuffle(q), ItemChoices(question))
    [] question.type = "multiple_answers_question" ->
         ITEM_BODY_MULTANS(Shuffle(q), Len(question.choices), ItemChoices(question))
    [] question.type = "short_answer_question" -> ITEM_BODY_SHORTANS
    [] question.type = "numerical_question" -> ITEM_BODY_NUM
    [] question.type = "essay_question" -> ITEM_BODY_ESSAY
    [] question.type = "file_upload_question" -> ITEM_BODY_UPLOAD
    [] OTHER -> Raise("ValueError")

CorrectFeedback(question) ==
  IF question.correct_feedback_raw # None
  THEN FEEDBACK_CORRECT(question.correct_feedback_raw[1]) ELSE <<>>

IncorrectFeedback(question) ==
  IF question.incorrect_feedback_raw # None
  THEN FEEDBACK_INCORRECT(question.incorrect_feedback_raw[1]) ELSE <<>>

\* GeneralFeedback tested only when there is no incorrect feedback
GeneralFeedback_UnlessIncorrect(question) ==
  IF question.feedback_raw # None /\ question.incorrect_feedback_raw = None
  THEN FEEDBACK_GENERAL(question.feedback_raw[1]) ELSE <<>>

GeneralFeedback(question) ==
  IF question.feedback_raw # None
  THEN FEEDBACK_GENERAL(question.feedback_raw[1]) ELSE <<>>

\* one MATCH_CONDITION per correct choice
MatchConditions(question) ==
  LET correct == SelectSeq(question.choices, IsCorrect)
  IN [k \in 1..Len(correct) |->
        MATCH_CONDITION(Ident("qtimaker_choice_", correct[k].id))]

\* VarequalConditions with a condition for the first choice only
VarequalConditions_FirstOnly(question) ==
  [k \in 1..(IF Len(question.choices) > 0 THEN 1 ELSE 0) |->
     VARQUAL_CONDITION(question.choices[k].choice_xml)]

\* one VARQUAL_CONDITION per choice
VarequalConditions(question) ==
  [k \in 1..Len(question.choices) |-> VARQUAL_CONDITION(question.choices[k].choice_xml)]

\* NumBounds with the exact value, when there is one, as both bounds
NumBounds_ExactForBoth(question) ==
  IF question.numerical_exact # None
  THEN [num_min |-> question.numerical_exact_html_xml[1],
        num_max |-> question.numerical_exact_html_xml[1]]
  ELSE [num_min |-> question.numerical_min_html_xml,
        num_max |-> question.numerical_max_html_xml]

\* the bounds of the numerical condition
NumBounds(question) ==
  [num_min |-> question.numerical_min_html_xml,
   num_max |-> question.numerical_max_html_xml]

ItemResponseProcessing(question) ==
  LET pts == question.points_possible
      cf == CorrectFeedback(question)
      inf == IncorrectFeedback(question)
      gf == GeneralFeedback(question)
  IN CASE question.type \in {"true_false_question", "multiple_choice_question"} ->
            RESPONSE_PROCESSING_MCTF(pts, cf, inf, gf)
       [] question.type = "multiple_answers_question" ->
            RESPONSE_PROCESSING_MULTANS(MatchConditions(question), pts, cf, inf, gf)
       [] question.type = "short_answer_question" ->
            RESPONSE_PROCESSING_SHORTANS(VarequalConditions(question), pts, cf, inf, gf)
       [] question.type = "numerical_question" ->
            RESPONSE_PROCESSING_NUM(NumBounds(question).num_min,
                                    NumBounds(question).num_max, pts, cf, inf, gf)
       [] question.type = "essay_question" -> RESPONSE_PROCESSING_ESSAY(gf)
       [] question.type = "file_upload_question" -> RESPONSE_PROCESSING_UPLOAD(gf)
       [] OTHER -> Raise("ValueError")

\* everything one loop iteration appends for a Question
QuestionXml(q, question) ==
  <<START_ITEM(Ident("qtimaker_question_", question.id))>>
    \o ItemMetadata(question)
    \o <<ItemBody(q, question), ItemResponseProcessing(question), END_ITEM>>

\* what one loop iteration has appended for a Question when its item body
\* raises
QuestionXmlBeforeRaise(question) ==
  <<START_ITEM(Ident("qtimaker_question_", question.id))>> \o ItemMetadata(question)

\* TextRegionXml with the prefix of the question items
TextRegionXml_QuestionPrefix(region) ==
  <<START_ITEM(Ident("qtimaker_question_", region.id)), TEXT_BODY, TEXT_OUTCOME,
    TEXT_RESPONSE_PROCESSING, END_ITEM>>

\* everything one loop iteration appends for a TextRegion
TextRegionXml(region) ==
  <<START_ITEM(Ident("qtimaker_text_", region.id)), TEXT_BODY, TEXT_OUTCOME,
    TEXT_RESPONSE_PROCESSING, END_ITEM>>

\* GroupStartXml with pick and points_per_question in each other's place
GroupStartXml_SwapsPickAndPoints(x) ==
  <<GROUP_START(Ident("qtimaker_group_", x.group.id), x.group.points_per_question,
                x.group.pick)>>

GroupStartXml(x) ==
  <<GROUP_START(Ident("qtimaker_group_", x.group.id), x.group.pick,
                x.group.points_per_question)>>

(* ---------------------- reading the document -------------------------- *)

\* the positions in doc where an assessmentItem starts
ItemStarts(doc) == {s \in DOMAIN doc : doc[s].tag = "START_ITEM"}

\* the position where the item started at s ends
ItemEnd(doc, s) ==
  CHOOSE e \in s..Len(doc) :
    /\ doc[e].tag = "END_ITEM"
    /\ \A m \in s..(e - 1) : doc[m].tag # "END_ITEM"

\* the parts with the given tag of the item started at s
ItemParts(doc, s, tag) == {doc[m] : m \in {n \in s..ItemEnd(doc, s) : doc[n].tag = tag}}

\* the one part with the given tag of the item started at s
ItemPart(doc, s, tag) == CHOOSE part \in ItemParts(doc, s, tag) : TRUE

HasResponseDeclaration(doc, s) == ItemParts(doc, s, "ITEM_METADATA") # {}

\* the cardinality RESPONSE is declared with (single when it is not declared)
DeclaredCardinality(doc, s) ==
  IF HasResponseDeclaration(doc, s)
  THEN ItemPart(doc, s, "ITEM_METADATA").cardinality ELSE "single"

\* the declared correct response of RESPONSE: its list of values
CorrectResponse(doc, s) ==
  IF HasResponseDeclaration(doc, s)
  THEN ItemPart(doc, s, "ITEM_METADATA").correctResponse ELSE <<>>

(* ------------------------ response processing ------------------------- *)

\* A cardinality-multiple RESPONSE matched against a single baseValue is
\* outside what QTI 2.1 defines for <match>: an engine either tests
\* membership or tests equality with the one-element container.
MatchReadings == {"member", "equal"}

RECURSIVE Holds(_, _, _, _, _)
\* whether a condition holds of the response R (None when nothing was
\* submitted), given the declared cardinality and correct response
Holds(cond, R, cardinality, correct, reading) ==
  CASE cond.op = "match_correct" -> R # None /\ R = correct
    [] cond.op = "match" ->
         IF cardinality = "multiple"
         THEN /\ R # None
              /\ IF reading = "member" THEN cond.value \in R[1]
                                       ELSE R[1] = {cond.value}
         ELSE R = Some(cond.value)
    [] cond.op = "gte" -> R # None /\ R[1] >= cond.value
    [] cond.op = "lte" -> R # None /\ R[1] <= cond.value
    [] cond.op = "isNull" -> R = None
    [] cond.op = "and" ->
         \A k \in DOMAIN cond.args : Holds(cond.args[k], R, cardinality, correct, reading)
    [] cond.op = "or" ->
         \E k \in DOMAIN cond.args : Holds(cond.args[k], R, cardinality, correct, reading)

RECURSIVE SetOutcomes(_, _, _)
\* the outcome variables after the first n setOutcomeValue of actions
SetOutcomes(actions, n, out) ==
  IF n = 0 THEN out
  ELSE LET before == SetOutcomes(actions, n - 1, out)
           a == actions[n]
       IN IF a.identifier = "SCORE"
          THEN [before EXCEPT !.SCORE = IF a.op = "sum" THEN @ + a.value ELSE a.value]
          ELSE [before EXCEPT !.FEEDBACK = Some(a.value)]

\* the outcomes response processing can end with: the responseIf when its
\* condition holds, else a responseElse when there is one (two responseElse
\* in one responseCondition: either one)
Outcomes(rp, R, cardinality, correct, reading) ==
  LET children == rp.responseCondition
      start == [SCORE |-> 0, FEEDBACK |-> None, fired |-> FALSE]
  IN IF children = <<>> THEN {start}
     ELSE IF Holds(children[1].condition, R, cardinality, correct, reading)
     THEN {SetOutcomes(children[1].actions, Len(children[1].actions),
                       [start EXCEPT !.fired = TRUE])}
     ELSE IF Len(children) = 1 THEN {start}
     ELSE {SetOutcomes(children[k].actions, Len(children[k].actions), start) :
             k \in 2..Len(children)}

\* the values a candidate can submit for RESPONSE through the interaction
\* of the item body, and None; for an identifier also the declared correct
\* values
ResponseDomain(doc, s) ==
  LET body == ItemPart(doc, s, "ITEM_BODY")
  IN {None} \cup
     CASE body.interaction = "choiceInteraction" ->
            IF DeclaredCardinality(doc, s) = "multiple"
            THEN {Some(S) : S \in (SUBSET {body.choices[k] : k \in DOMAIN body.choices}) \ {{}}}
            ELSE {Some(body.choices[k]) : k \in DOMAIN body.choices}
                   \cup {Some(CorrectResponse(doc, s)[k]) : k \in DOMAIN CorrectResponse(doc, s)}
       [] body.interaction = "textEntryInteraction" ->
            IF body.baseType = "float"
            THEN {Some(v) : v \in 0..(MaxNum + 1)}
            ELSE {Some(<<"text", k>>) : k \in 1..(MaxChoices + 1)}
       [] body.interaction \in {"extendedTextInteraction", "uploadInteraction"} ->
            {Some(<<"text", 1>>)}
       [] OTHER -> {}

(* --------------------------- the actions ------------------------------ *)

entries == quiz.questions_and_delims

\* the call has neither returned nor raised
NoResult == [returned |-> None, raised |-> None]

\* generate_quiz at the given position, with nothing written
Route(at) == [pc |-> at, idx |-> 1, quiz_text |-> <<>>, files |-> {}, response |-> None]

\* generate_quiz was not called
RouteIdle == Route("idle")

\* assessment_v2 is called with one of the quizzes of Q
InitCall(Q) ==
  /\ quiz \in Q
  /\ xml = <<BEFORE_ITEMS("assessment_identifier", "title_xml")>>
  /\ points_possible = 0
  /\ i = 1
  /\ pc = "points"
  /\ result = NoResult
  /\ session = None

\* no call of the web routes' helpers is under way
WebIdle ==
  /\ gemini = None
  /\ generation = None
  /\ chunking = None
  /\ upload = None

Init ==
  /\ InitCall(QuizSet)
  /\ request = None
  /\ route = RouteIdle
  /\ calls = <<>>
  /\ WebIdle

\* for x in quiz.questions_and_delims: one iteration of the points loop
SumPoints ==
  /\ pc = "points"
  /\ i <= Len(entries)
  /\ points_possible' = AddPoints(points_possible, entries[i])
  /\ i' = i + 1
  /\ UNCHANGED <<quiz, pc, xml, session, result, request, route, calls, gemini, generation, chunking, upload>>

\* the points loop ends and the loop over the entries starts
PointsDone ==
  /\ pc = "points"
  /\ i > Len(entries)
  /\ pc' = "items"
  /\ i' = 1
  /\ UNCHANGED <<quiz, points_possible, xml, session, result, request, route, calls, gemini, generation, chunking, upload>>

\* an iteration of the second loop on a TextRegion
EmitTextRegion ==
  /\ pc = "items"
  /\ i <= Len(entries)
  /\ IsTextRegion(entries[i])
  /\ xml' = xml \o TextRegionXml(entries[i])
  /\ i' = i + 1
  /\ UNCHANGED <<quiz, pc, points_possible, session, result, request, route, calls, gemini, generation, chunking, upload>>

\* an iteration of the second loop on a GroupStart
EmitGroupStart ==
  /\ pc = "items"
  /\ i <= Len(entries)
  /\ IsGroupStart(entries[i])
  /\ xml' = xml \o GroupStartXml(entries[i])
  /\ i' = i + 1
  /\ UNCHANGED <<quiz, pc, points_possible, session, result, request, route, calls, gemini, generation, chunking, upload>>

\* an iteration of the second loop on a GroupEnd
EmitGroupEnd ==
  /\ pc = "items"
  /\ i <= Len(entries)
  /\ IsGroupEnd(entries[i])
  /\ xml' = Append(xml, GROUP_END)
  /\ i' = i + 1
  /\ UNCHANGED <<quiz, pc, points_possible, session, result, request, route, calls, gemini, generation, chunking, upload>>

\* an iteration of the second loop on a Question
EmitQuestion ==
  /\ pc = "items"
  /\ i <= Len(entries)
  /\ IsQuestion(entries[i])
  /\ ItemBody(quiz, entries[i]).tag # "raise"
  /\ xml' = xml \o QuestionXml(quiz, entries[i])
  /\ i' = i + 1
  /\ UNCHANGED <<quiz, pc, points_possible, session, result, request, route, calls, gemini, generation, chunking, upload>>

\* after the loop: AFTER_ITEMS is appended and the document returned
Finish ==
  /\ pc = "items"
  /\ i > Len(entries)
  /\ xml' = Append(xml, AFTER_ITEMS(points_possible))
  /\ pc' = "done"
  /\ result' = [returned |-> Some(xml'), raised |-> None]
  /\ UNCHANGED <<quiz, i, points_possible, session, request, route, calls, gemini, generation, chunking, upload>>

\* an iteration of the second loop on a Question whose type no branch of
\* the item body covers: raise ValueError, after START_ITEM and whatever
\* the response declaration stage appended
RaiseValueError ==
  /\ pc = "items"
  /\ i <= Len(entries)
  /\ IsQuestion(entries[i])
  /\ ItemBody(quiz, entries[i]).tag = "raise"
  /\ xml' = xml \o QuestionXmlBeforeRaise(entries[i])
  /\ pc' = "raised"
  /\ result' = [returned |-> None, raised |-> Some(ItemBody(quiz, entries[i]).error)]
  /\ UNCHANGED <<quiz, i, points_possible, session, request, route, calls, gemini, generation, chunking, upload>>

\* an iteration of the second loop on an entry of no known class: raise
\* TypeError
RaiseTypeError ==
  /\ pc = "items"
  /\ i <= Len(entries)
  /\ ~IsTextRegion(entries[i])
  /\ ~IsGroupStart(entries[i])
  /\ ~IsGroupEnd(entries[i])
  /\ ~IsQuestion(entries[i])
  /\ pc' = "raised"
  /\ result' = [returned |-> None, raised |-> Some("TypeError")]
  /\ UNCHANGED <<quiz, i, points_possible, xml, session, request, route, calls, gemini, generation, chunking, upload>>

\* a candidate's response R to the item started at s is processed by the
\* item's responseProcessing
Respond ==
  /\ pc = "done"
  /\ session = None
  /\ \E s \in ItemStarts(xml) :
       \E R \in ResponseDomain(xml, s) :
         \E reading \in (IF DeclaredCardinality(xml, s) = "multiple"
                         THEN MatchReadings ELSE {"equal"}) :
           \E out \in Outcomes(ItemPart(xml, s, "RESPONSE_PROCESSING"), R,
                               DeclaredCardinality(xml, s), CorrectResponse(xml, s), reading) :
             session' = Some([item |-> s, RESPONSE |-> R, reading |-> reading,
                              fired |-> out.fired, SCORE |-> out.SCORE,
                              FEEDBACK |-> out.FEEDBACK])
  /\ UNCHANGED <<quiz, pc, i, points_possible, xml, result, request, route, calls, gemini, generation, chunking, upload>>

\* the steps of a call of assessment_v2
NextGenerate ==
  \/ SumPoints
  \/ PointsDone
  \/ EmitTextRegion
  \/ EmitGroupStart
  \/ EmitGroupEnd
  \/ EmitQuestion
  \/ Finish
  \/ RaiseValueError
  \/ RaiseTypeError

\* a call of assessment_v2, and a candidate's response to an item of the
\* document it returned
Next ==
  \/ NextGenerate
  \/ Respond

Spec == Init /\ [][Next]_vars

\* a call of assessment_v2 up to its return
SpecGenerate == Init /\ [][NextGenerate]_vars

(* ====================== generate_quiz (the route) ===================== *)

(* --------------------------- the request ------------------------------ *)

\* a question of the request body (class Question)
RequestQuestion(id, type, choices, correct_answer, explanation) ==
  [id |-> id, type |-> type, text |-> "text", choices |-> choices,
   correct_answer |-> correct_answer, explanation |-> explanation]

\* the questions of the bounded model: choice questions with and without
\* choices, short answer, essay, and a type string generate_quiz does not
\* know.  Two questions may share an id; the two choices have the same
\* text; correct_answer is absent, the first index, or the index after the
\* last.
RequestQuestions ==
  LET ids == {"a", "b"}
      choices == <<"choice", "choice">>
  IN {RequestQuestion(id, t, Some(choices), ca, None) :
        id \in ids, t \in {"multiple_choice", "true_false"},
        ca \in {None, Some(0), Some(Len(choices))}}
       \cup {RequestQuestion(id, "multiple_choice", None, None, None) : id \in ids}
       \cup {RequestQuestion(id, "short_answer", None, None, e) :
               id \in ids, e \in {None, Some("explanation")}}
       \cup {RequestQuestion(id, t, None, None, None) :
               id \in ids, t \in {"essay", "numerical"}}

QuizGenerationRequest(questions) ==
  [title |-> "title", description |-> None, questions |-> questions,
   qti_version |-> "1.2", shuffle_answers |-> FALSE, show_correct_answers |-> TRUE]

RequestSet ==
  {QuizGenerationRequest(qs) :
     qs \in UNION {[1..n -> RequestQuestions] : n \in 0..MaxQuestions}}

(* ------------------------- the quiz markup ---------------------------- *)

\* quiz_text up to the first question
Header(req) ==
  <<[line |-> "Quiz title", value |-> req.title]>>
    \o (IF req.description # None
        THEN <<[line |-> "Quiz description", value |-> req.description[1]]>> ELSE <<>>)
    \o <<[line |-> "Shuffle answers",
          value |-> IF req.shuffle_answers THEN "true" ELSE "false"]>>
    \o (IF ~req.show_correct_answers
        THEN <<[line |-> "Show correct answers", value |-> "false"]>> ELSE <<>>)
    \o <<[line |-> ""]>>

\* TitleLine with the id of the question alone
TitleLine_IdOnly(idx, question) == [line |-> "Title", idx |-> 0, id |-> question.id]

\* "Title: Question {idx} (ID: {question.id})"
TitleLine(idx, question) == [line |-> "Title", idx |-> idx, id |-> question.id]

\* "{idx}. {q_text}"
QuestionLine(idx, q_text) == [line |-> "Question", idx |-> idx, text |-> q_text]

\* ChoicePrefix with the first choice marked when correct_answer is absent
ChoicePrefix_FirstByDefault(k, question) ==
  IF Some(k) = question.correct_answer \/ (k = 0 /\ question.correct_answer = None)
  THEN "*" ELSE ""

\* '*' if i == question.correct_answer else ''  (k counts from 0)
ChoicePrefix(k, question) == IF Some(k) = question.correct_answer THEN "*" ELSE ""

\* "{prefix}{letter}) {choice}" for every choice
ChoiceLines(question) ==
  IF question.choices # None
  THEN [n \in 1..Len(question.choices[1]) |->
          [line |-> "Choice", prefix |-> ChoicePrefix(n - 1, question),
           letter |-> n - 1, text |-> question.choices[1][n]]]
  ELSE <<>>

\* everything one iteration of the loop over request.questions writes
QuestionText(idx, question) ==
  <<TitleLine(idx, question)>>
    \o (IF question.type \in {"multiple_choice", "true_false"}
        THEN <<QuestionLine(idx, question.text)>> \o ChoiceLines(question)
        ELSE IF question.type = "short_answer"
        THEN <<QuestionLine(idx, question.text),
               [line |-> "Answer",
                text |-> IF question.explanation # None
                         THEN question.explanation[1] ELSE "answer"]>>
        ELSE IF question.type = "essay"
        THEN <<QuestionLine(idx, question.text), [line |-> "Essay"]>>
        ELSE <<>>)
    \o <<[line |-> ""]>>

(* ------------------------ Quiz(quiz_text) ----------------------------- *)

\* the blocks of lines between the empty lines of the markup
RECURSIVE Blocks(_)
Blocks(text) ==
  IF text = <<>> THEN <<>>
  ELSE LET stops == {n \in DOMAIN text : text[n].line = ""}
           stop == IF stops = {} THEN Len(text) + 1
                   ELSE CHOOSE n \in stops : \A m \in stops : n <= m
       IN <<SubSeq(text, 1, stop - 1)>> \o Blocks(SubSeq(text, stop + 1, Len(text)))

\* the lines of a block with the given kind
LinesOf(block, kind) == {n \in DOMAIN block : block[n].line = kind}

\* a question with choice lines none of which is marked correct: a fatal
\* ParseError
ZeroCorrectBlock(block) ==
  /\ LinesOf(block, "Question") # {}
  /\ LinesOf(block, "Choice") # {}
  /\ \A n \in LinesOf(block, "Choice") : block[n].prefix # "*"

\* a block the markup grammar does not settle: a title with no question,
\* or a question with no answer line
UnsettledBlock(block) ==
  \/ LinesOf(block, "Title") # {} /\ LinesOf(block, "Question") = {}
  \/ /\ LinesOf(block, "Question") # {}
     /\ LinesOf(block, "Choice") \cup LinesOf(block, "Answer") \cup LinesOf(block, "Essay") = {}

\* what Quiz(quiz_text) can do: return a Quiz or raise a ParseError
ParseOutcomes(text) ==
  LET blocks == Blocks(text)
      fatal == \E b \in DOMAIN blocks : ZeroCorrectBlock(blocks[b])
      unsettled == \E b \in DOMAIN blocks : UnsettledBlock(blocks[b])
  IN {o \in {"Quiz", "ParseError"} :
        /\ o = "Quiz" => ~fatal
        /\ o = "ParseError" => fatal \/ unsettled}

\* what qti.save(path) can do: write the archive, or raise on an I/O
\* failure
SaveOutcomes == {"archive", "OSError"}

(* ---------------------------- the steps ------------------------------- *)

HTTPException(status_code, detail) == [status_code |-> status_code, detail |-> detail]

FileResponse(path) == [status_code |-> 200, detail |-> path]

\* RejectEmpty answering only after the header of the markup is written
RejectEmpty_AfterHeader ==
  /\ route.pc = "start"
  /\ Len(request.questions) = 0
  /\ route' = [route EXCEPT !.pc = "done", !.quiz_text = Header(request),
                            !.response = Some(HTTPException(400, "No questions provided"))]
  /\ UNCHANGED <<quiz, pc, i, points_possible, xml, result, session, request, calls, gemini, generation, chunking, upload>>

\* if not request.questions: raise HTTPException(400)
RejectEmpty ==
  /\ route.pc = "start"
  /\ Len(request.questions) = 0
  /\ route' = [route EXCEPT !.pc = "done",
                            !.response = Some(HTTPException(400, "No questions provided"))]
  /\ UNCHANGED <<quiz, pc, i, points_possible, xml, result, session, request, calls, gemini, generation, chunking, upload>>

\* quiz_text = "Quiz title: ..." and the options
WriteHeader ==
  /\ route.pc = "start"
  /\ Len(request.questions) > 0
  /\ route' = [route EXCEPT !.pc = "questions", !.quiz_text = Header(request)]
  /\ UNCHANGED <<quiz, pc, i, points_possible, xml, result, session, request, calls, gemini, generation, chunking, upload>>

\* one iteration of: for idx, question in enumerate(request.questions, start=1)
WriteQuestion ==
  /\ route.pc = "questions"
  /\ route.idx <= Len(request.questions)
  /\ route' = [route EXCEPT
                 !.quiz_text = @ \o QuestionText(route.idx, request.questions[route.idx]),
                 !.idx = @ + 1]
  /\ UNCHANGED <<quiz, pc, i, points_possible, xml, result, session, request, calls, gemini, generation, chunking, upload>>

\* quiz = Quiz(quiz_text, config=config), inside the try
ParseQuiz ==
  /\ route.pc = "questions"
  /\ route.idx > Len(request.questions)
  /\ \E o \in ParseOutcomes(route.quiz_text) :
       route' = IF o = "Quiz"
                THEN [route EXCEPT !.pc = "parsed"]
                ELSE [route EXCEPT !.pc = "done",
                                   !.response = Some(HTTPException(500, o))]
  /\ UNCHANGED <<quiz, pc, i, points_possible, xml, result, session, request, calls, gemini, generation, chunking, upload>>

\* qti = QTI(quiz, qti_version=request.qti_version)
GenerateQTI ==
  /\ route.pc = "parsed"
  /\ route' = [route EXCEPT !.pc = "generated"]
  /\ UNCHANGED <<quiz, pc, i, points_possible, xml, result, session, request, calls, gemini, generation, chunking, upload>>

\* with tempfile.NamedTemporaryFile(delete=False, suffix='.zip') as tmp
CreateTempFile ==
  /\ route.pc = "generated"
  /\ route' = [route EXCEPT !.pc = "tempfile",
                            !.files = @ \cup {[name |-> "tmp.zip", content |-> "empty"]}]
  /\ UNCHANGED <<quiz, pc, i, points_possible, xml, result, session, request, calls, gemini, generation, chunking, upload>>

\* qti.save(qti_path): the archive is written and the file returned, or
\* the write fails and the except clause answers 500
SaveArchive ==
  /\ route.pc = "tempfile"
  /\ \E o \in SaveOutcomes :
       route' = IF o = "archive"
                THEN [route EXCEPT !.pc = "done",
                                   !.files = {[name |-> "tmp.zip", content |-> o]},
                                   !.response = Some(FileResponse("tmp.zip"))]
                ELSE [route EXCEPT !.pc = "done",
                                   !.response = Some(HTTPException(500, o))]
  /\ UNCHANGED <<quiz, pc, i, points_possible, xml, result, session, request, calls, gemini, generation, chunking, upload>>

\* the quizzes assessment_v2 is called with next to the route: every list
\* of fewer than MaxEntries plain entries, covered or not
PipelineQuizSet ==
  {Quiz(AssignIds(es), FALSE) :
     es \in UNION {EntryLists(n) : n \in 0..(MaxEntries - 1)}}
    \cup {Quiz(AssignIds(es \o <<x>>), FALSE) :
            es \in UNION {EntryLists(n) : n \in 0..(MaxEntries - 2)},
            x \in {UnknownQuestion, OtherEntry}}

\* either assessment_v2 is called with a Quiz, or generate_quiz with a
\* request
InitPipeline ==
  /\ calls = <<>>
  /\ WebIdle
  /\ \/ /\ InitCall(PipelineQuizSet)
        /\ request = None
        /\ route = RouteIdle
     \/ /\ request \in RequestSet
        /\ route = Route("start")
        /\ quiz = Quiz(<<>>, FALSE)
        /\ xml = <<>>
        /\ points_possible = 0
        /\ i = 1
        /\ pc = "idle"
        /\ result = NoResult
        /\ session = None

NextPipeline ==
  \/ Next
  \/ RejectEmpty
  \/ WriteHeader
  \/ WriteQuestion
  \/ ParseQuiz
  \/ GenerateQTI
  \/ CreateTempFile
  \/ SaveArchive

SpecPipeline == InitPipeline /\ [][NextPipeline]_vars

(* ================== concurrent calls of assessment_v2 ================= *)

\* the two callers
CallIds == {1, 2}

\* the entries of the quizzes of the callers
CallEntryLists ==
  UNION {[1..n -> {Question("multiple_choice_question", 1, Choices(2, {1}), NoNumerical,
                            None, None, None),
                   TextRegion}] : n \in 0..MaxCallEntries}
    \cup {<<UnknownQuestion>>}

CallQuizSet == {Quiz(AssignIds(es), FALSE) : es \in CallEntryLists}

\* FrameOf with one frame for all calls
FrameOf_Shared(c) == 1

\* the frame that holds the locals points_possible and xml of call c:
\* its own
FrameOf(c) == c

\* NewList with the list of the previous call kept
NewList_KeepsPrevious(previous) == previous

\* xml = []: a new list, whatever list a previous call built
NewList(previous) == <<>>

\* a caller about to run assessment_v2(q, ...) for the first time
NewCall(q) ==
  [quiz |-> q, pc |-> "points", i |-> 1, points_possible |-> 0,
   xml |-> NewList(<<>>) \o <<BEFORE_ITEMS("assessment_identifier", "title_xml")>>,
   result |-> NoResult, first |-> None]

\* what one iteration of the second loop appends for a covered entry
EntryXml(q, x) ==
  IF IsTextRegion(x) THEN TextRegionXml(x)
  ELSE IF IsGroupStart(x) THEN GroupStartXml(x)
  ELSE IF IsGroupEnd(x) THEN <<GROUP_END>>
  ELSE QuestionXml(q, x)

\* the exception one iteration of the second loop raises, None when it
\* raises none
EntryRaises(q, x) ==
  IF IsTextRegion(x) \/ IsGroupStart(x) \/ IsGroupEnd(x) THEN None
  ELSE IF ~IsQuestion(x) THEN Some("TypeError")
  ELSE IF ItemBody(q, x).tag = "raise" THEN Some(ItemBody(q, x).error)
  ELSE None

\* call c goes through one iteration of the points loop
CallSumPoints ==
  /\ \E c \in CallIds :
     LET call == calls[c]
         es == call.quiz.questions_and_delims
     IN /\ call.pc = "points"
        /\ call.i <= Len(es)
        /\ calls' = [calls EXCEPT
                       ![c].i = @ + 1,
                       ![FrameOf(c)].points_possible = AddPoints(@, es[call.i])]
  /\ UNCHANGED <<quiz, pc, i, points_possible, xml, result, session, request, route, gemini, generation, chunking, upload>>

\* call c leaves the points loop
CallPointsDone ==
  /\ \E c \in CallIds :
     /\ calls[c].pc = "points"
     /\ calls[c].i > Len(calls[c].quiz.questions_and_delims)
     /\ calls' = [calls EXCEPT ![c].pc = "items", ![c].i = 1]
  /\ UNCHANGED <<quiz, pc, i, points_possible, xml, result, session, request, route, gemini, generation, chunking, upload>>

\* call c goes through one iteration of the second loop
CallEmit ==
  /\ \E c \in CallIds :
     LET call == calls[c]
         es == call.quiz.questions_and_delims
     IN /\ call.pc = "items"
        /\ call.i <= Len(es)
        /\ EntryRaises(call.quiz, es[call.i]) = None
        /\ calls' = [calls EXCEPT
                       ![c].i = @ + 1,
                       ![FrameOf(c)].xml = @ \o EntryXml(call.quiz, es[call.i])]
  /\ UNCHANGED <<quiz, pc, i, points_possible, xml, result, session, request, route, gemini, generation, chunking, upload>>

\* call c raises in the second loop
CallRaise ==
  /\ \E c \in CallIds :
     LET call == calls[c]
         es == call.quiz.questions_and_delims
     IN /\ call.pc = "items"
        /\ call.i <= Len(es)
        /\ EntryRaises(call.quiz, es[call.i]) # None
        /\ calls' = [calls EXCEPT
                       ![c].pc = "raised",
                       ![c].result = [returned |-> None,
                                      raised |-> EntryRaises(call.quiz, es[call.i])]]
  /\ UNCHANGED <<quiz, pc, i, points_possible, xml, result, session, request, route, gemini, generation, chunking, upload>>

\* call c appends AFTER_ITEMS and returns the document
CallFinish ==
  /\ \E c \in CallIds :
     LET call == calls[c]
         doc == Append(calls[FrameOf(c)].xml, AFTER_ITEMS(calls[FrameOf(c)].points_possible))
     IN /\ call.pc = "items"
        /\ call.i > Len(call.quiz.questions_and_delims)
        /\ calls' = [calls EXCEPT
                       ![c].pc = "done",
                       ![c].result = [returned |-> Some(doc), raised |-> None],
                       ![FrameOf(c)].xml = doc]
  /\ UNCHANGED <<quiz, pc, i, points_possible, xml, result, session, request, route, gemini, generation, chunking, upload>>

\* caller c, whose first call is over, calls assessment_v2 again with the
\* same Quiz
CallAgain ==
  /\ \E c \in CallIds :
     LET call == calls[c]
     IN /\ call.pc \in {"done", "raised"}
        /\ call.first = None
        /\ calls' = [calls EXCEPT
                       ![c].first = Some(call.result),
                       ![c].result = NoResult,
                       ![c].pc = "points",
                       ![c].i = 1,
                       ![FrameOf(c)].points_possible = 0,
                       ![FrameOf(c)].xml =
                          NewList(@) \o <<BEFORE_ITEMS("assessment_identifier", "title_xml")>>]
  /\ UNCHANGED <<quiz, pc, i, points_possible, xml, result, session, request, route, gemini, generation, chunking, upload>>

InitCalls ==
  /\ calls \in [CallIds -> {NewCall(q) : q \in CallQuizSet}]
  /\ quiz = Quiz(<<>>, FALSE)
  /\ xml = <<>>
  /\ points_possible = 0
  /\ i = 1
  /\ pc = "idle"
  /\ result = NoResult
  /\ session = None
  /\ request = None
  /\ route = RouteIdle
  /\ WebIdle

NextCalls ==
  \/ CallSumPoints
  \/ CallPointsDone
  \/ CallEmit
  \/ CallRaise
  \/ CallFinish
  \/ CallAgain

SpecCalls == InitCalls /\ [][NextCalls]_vars

(* ============================ the claims ============================== *)

\* the MAXSCORE default of the returned document
EmittedMaxScore == xml[Len(xml)].MAXSCORE

\* entry n lies between a GroupStart and its GroupEnd
Enclosed(es, n) ==
  \E s \in 1..(n - 1) : IsGroupStart(es[s]) /\ \A m \in s..n : ~IsGroupEnd(es[m])

RECURSIVE ExpectedMaxScore(_, _)
\* the spec's total over the first n entries: points_possible of the
\* standalone questions plus points_per_question * pick of the groups
ExpectedMaxScore(es, n) ==
  IF n = 0 THEN 0
  ELSE ExpectedMaxScore(es, n - 1)
         + (IF IsQuestion(es[n]) /\ ~Enclosed(es, n) THEN es[n].points_possible
            ELSE IF IsGroupStart(es[n])
                 THEN es[n].group.points_per_question * es[n].group.pick
            ELSE 0)

\* C1: the MAXSCORE default emitted at assessment level equals the sum of
\* points_possible over the standalone questions plus the sum of
\* points_per_question * pick over the groups.
C1_MaxScoreIsStandalonePlusGroups ==
  pc = "done" => EmittedMaxScore = ExpectedMaxScore(entries, Len(entries))

\* the position of the GroupEnd that closes the group started at s
GroupEndOf(es, s) ==
  CHOOSE e \in s..Len(es) : IsGroupEnd(es[e]) /\ \A m \in s..(e - 1) : ~IsGroupEnd(es[m])

\* the entries without the entries s..e
Without(es, s, e) == SubSeq(es, 1, s - 1) \o SubSeq(es, e + 1, Len(es))

\* what the group started at s adds to the emitted max-score: the emitted
\* max-score less the one of the same quiz without the group
GroupContribution(s) ==
  LET rest == Without(entries, s, GroupEndOf(entries, s))
  IN EmittedMaxScore - TotalPoints(rest, Len(rest))

\* C2: a group contributes exactly pick * points_per_question to the
\* emitted assessment max-score, whatever questions it encloses.
C2_GroupContributesPickTimesPoints ==
  pc = "done" =>
    \A s \in DOMAIN entries :
      IsGroupStart(entries[s]) =>
        GroupContribution(s)
          = entries[s].group.pick * entries[s].group.points_per_question

\* the item started at s is the item of a text region
IsTextItem(doc, s) == doc[s].identifier[1] = "qtimaker_text_"

\* the setOutcomeValue elements of a responseProcessing
OutcomeActions(rp) ==
  UNION {{rp.responseCondition[c].actions[a] :
            a \in DOMAIN rp.responseCondition[c].actions} :
         c \in DOMAIN rp.responseCondition}

\* C3: every TextRegion entry compiles to an item that has no response
\* declaration and whose response processing never changes SCORE (the
\* state part), and the points loop adds nothing for it (the action part).
C3_TextRegionIsUnscored ==
  /\ [](/\ pc = "done" =>
             \A n \in DOMAIN entries :
               IsTextRegion(entries[n]) =>
                 \E s \in ItemStarts(xml) :
                   xml[s].identifier = Ident("qtimaker_text_", entries[n].id)
        /\ \A s \in ItemStarts(xml) :
             IsTextItem(xml, s) =>
               /\ ~HasResponseDeclaration(xml, s)
               /\ \A a \in OutcomeActions(ItemPart(xml, s, "RESPONSE_PROCESSING")) :
                    a.identifier # "SCORE"
        /\ (session # None /\ IsTextItem(xml, session[1].item)) =>
             (session[1].SCORE = 0 /\ ~session[1].fired))
  /\ [][(pc = "points" /\ i <= Len(entries) /\ IsTextRegion(entries[i]))
          => points_possible' = points_possible]_vars

\* C3 witness: a quiz with a text region and a question with points was
\* generated and the text item's response processing has run.
C3_Witness ==
  /\ pc = "done"
  /\ session # None
  /\ IsTextItem(xml, session[1].item)
  /\ \E n \in DOMAIN entries : IsQuestion(entries[n]) /\ entries[n].points_possible > 0
  /\ EmittedMaxScore > 0

\* the Question entry the item started at s was generated from
QuestionOf(s) ==
  LET n == CHOOSE n \in DOMAIN entries :
             IsQuestion(entries[n]) /\ xml[s].identifier[2] = entries[n].id
  IN entries[n]

\* the items generated from questions whose type is in types
ItemsOfType(types) ==
  {s \in ItemStarts(xml) : ~IsTextItem(xml, s) /\ QuestionOf(s).type \in types}

\* the response processing of the item started at s has run
Processed(s) == session # None /\ session[1].item = s

\* the correct choices of a question
CorrectChoices(question) ==
  {question.choices[k] : k \in {n \in DOMAIN question.choices : question.choices[n].correct}}

C5_MultipleAnswersExactSet ==
  \A s \in ItemsOfType({"multiple_answers_question"}) :
    Processed(s) =>
      (session[1].fired
         <=> session[1].RESPONSE
               = Some({Ident("qtimaker_choice_", c.id) : c \in CorrectChoices(QuestionOf(s))}))

\* the condition of the responseIf of the item started at s
IfCondition(s) == ItemPart(xml, s, "RESPONSE_PROCESSING").responseCondition[1].condition

\* C6: the scoring condition of a short_answer question is a disjunction
\* with exactly one equality test per accepted answer, and points are
\* awarded if and only if the response equals one of the accepted answers.
C6_ShortAnswerDisjunction ==
  \A s \in ItemsOfType({"short_answer_question"}) :
    LET answers == QuestionOf(s).choices
    IN /\ IfCondition(s).op = "or"
       /\ Len(IfCondition(s).args) = Len(answers)
       /\ \A k \in DOMAIN answers :
            IfCondition(s).args[k]
              = [op |-> "match", baseType |-> "string", value |-> answers[k].choice_xml]
       /\ Processed(s) =>
            (session[1].fired
               <=> \E k \in DOMAIN answers :
                     session[1].RESPONSE = Some(answers[k].choice_xml))

\* C6 witness: a short answer question with several accepted answers has
\* awarded points for a response equal to its last accepted answer.
C6_Witness ==
  \E s \in ItemsOfType({"short_answer_question"}) :
    LET answers == QuestionOf(s).choices
    IN /\ Len(answers) >= 2
       /\ Processed(s)
       /\ session[1].fired
       /\ session[1].SCORE > 0
       /\ session[1].RESPONSE = Some(answers[Len(answers)].choice_xml)

\* C7: a numerical question awards its points if and only if the response r
\* satisfies min <= r <= max, with the question's min and max in the
\* condition for the exact and for the range form.
C7_NumericalInclusiveRange ==
  \A s \in ItemsOfType({"numerical_question"}) :
    LET q == QuestionOf(s)
    IN /\ IfCondition(s) =
            [op |-> "and",
             args |-> <<[op |-> "gte", value |-> q.numerical_min_html_xml],
                        [op |-> "lte", value |-> q.numerical_max_html_xml]>>]
       /\ Processed(s) =>
            (session[1].fired
               <=> /\ session[1].RESPONSE # None
                   /\ q.numerical_min_html_xml <= session[1].RESPONSE[1]
                   /\ session[1].RESPONSE[1] <= q.numerical_max_html_xml)

\* C7 witness: an exact-value question with min < max has awarded points
\* for a response on a bound that is not the exact value.
C7_Witness ==
  \E s \in ItemsOfType({"numerical_question"}) :
    LET q == QuestionOf(s)
    IN /\ q.numerical_exact # None
       /\ q.numerical_min_html_xml < q.numerical_max_html_xml
       /\ Processed(s)
       /\ session[1].fired
       /\ session[1].SCORE > 0
       /\ session[1].RESPONSE # q.numerical_exact

\* C8: the response processing of an essay or file_upload question is a
\* null check only: it sets SCORE to 0 when nothing was submitted, and no
\* branch increases SCORE, whatever points_possible and feedback are.
C8_EssayUploadNullCheckOnly ==
  \A s \in ItemsOfType({"essay_question", "file_upload_question"}) :
    LET rp == ItemPart(xml, s, "RESPONSE_PROCESSING")
    IN /\ IfCondition(s).op = "isNull"
       /\ \A a \in OutcomeActions(rp) :
            a.identifier = "SCORE" => (a.op = "set" /\ a.value = 0)
       /\ Processed(s) =>
            /\ session[1].SCORE = 0
            /\ session[1].fired <=> session[1].RESPONSE = None

\* C8 witness: an essay question with points and general feedback was
\* answered, and the feedback branch was taken.
C8_Witness ==
  \E s \in ItemsOfType({"essay_question", "file_upload_question"}) :
    /\ QuestionOf(s).points_possible > 0
    /\ QuestionOf(s).feedback_raw # None
    /\ Processed(s)
    /\ session[1].RESPONSE # None
    /\ session[1].FEEDBACK # None

\* cardinality and base type of the response declaration of the item
\* started at s
Declared(s) ==
  <<ItemPart(xml, s, "ITEM_METADATA").cardinality, ItemPart(xml, s, "ITEM_METADATA").baseType>>

\* C9: the response declaration of each question type has the cardinality
\* and base type of the spec's table, multiple_answers has max-choices
\* equal to the choice count, and essay and file_upload have none.
C9_ResponseDeclarationTable ==
  /\ \A s \in ItemsOfType({"true_false_question", "multiple_choice_question"}) :
       HasResponseDeclaration(xml, s) /\ Declared(s) = <<"single", "identifier">>
  /\ \A s \in ItemsOfType({"multiple_answers_question"}) :
       /\ HasResponseDeclaration(xml, s) /\ Declared(s) = <<"multiple", "identifier">>
       /\ ItemPart(xml, s, "ITEM_BODY").maxChoices = Len(QuestionOf(s).choices)
  /\ \A s \in ItemsOfType({"short_answer_question"}) :
       HasResponseDeclaration(xml, s) /\ Declared(s) = <<"single", "string">>
  /\ \A s \in ItemsOfType({"numerical_question"}) :
       HasResponseDeclaration(xml, s) /\ Declared(s) = <<"single", "float">>
  /\ \A s \in ItemsOfType({"essay_question", "file_upload_question"}) :
       ~HasResponseDeclaration(xml, s)

\* C9 witness: the document of a multiple answers question with three
\* choices is complete.
C9_Witness ==
  /\ pc = "done"
  /\ \E s \in ItemsOfType({"multiple_answers_question"}) :
       Len(QuestionOf(s).choices) >= 3

\* the values of the identifier match conditions of the item started at s
MatchedIdentifiers(s) ==
  LET cond == IfCondition(s)
  IN IF cond.op = "and"
     THEN {cond.args[k].value :
             k \in {n \in DOMAIN cond.args :
                      cond.args[n].op = "match" /\ cond.args[n].baseType = "identifier"}}
     ELSE {}

\* C10: every identifier emitted for an item, a choice, a group or a text
\* region, the correct-response values and the match conditions included,
\* is the model id prefixed with the qtimaker prefix of its kind.
C10_IdentifiersAreNamespaced ==
  /\ \A n \in DOMAIN xml :
       /\ xml[n].tag = "START_ITEM" =>
            xml[n].identifier[1] \in {"qtimaker_question_", "qtimaker_text_"}
       /\ xml[n].tag = "GROUP_START" => xml[n].identifier[1] = "qtimaker_group_"
  /\ \A s \in ItemsOfType(ChoiceTypes) :
       LET ids == {QuestionOf(s).choices[k].id : k \in DOMAIN QuestionOf(s).choices}
           body == ItemPart(xml, s, "ITEM_BODY")
           Namespaced(ident) == ident[1] = "qtimaker_choice_" /\ ident[2] \in ids
       IN /\ \A k \in DOMAIN body.choices : Namespaced(body.choices[k])
          /\ \A k \in DOMAIN CorrectResponse(xml, s) : Namespaced(CorrectResponse(xml, s)[k])
          /\ \A ident \in MatchedIdentifiers(s) : Namespaced(ident)

\* the question types whose response processing compares the response
AutoScoredTypes == QuestionTypes \ {"essay_question", "file_upload_question"}

\* the children of the responseCondition of the item started at s
ResponseCondition(s) == ItemPart(xml, s, "RESPONSE_PROCESSING").responseCondition

ChoiceInteractions ==
  {n \in DOMAIN xml : xml[n].tag = "ITEM_BODY" /\ xml[n].interaction = "choiceInteraction"}

\* C12: every choiceInteraction of the document carries the shuffle value
\* of the quiz, and the returned document has one choiceInteraction for
\* each true/false, multiple choice and multiple answers question.
C12_ShuffleIsQuizWide ==
  /\ \A n \in ChoiceInteractions : xml[n].shuffle = quiz.shuffle_answers_xml
  /\ pc = "done" =>
       Cardinality(ChoiceInteractions)
         = Cardinality({n \in DOMAIN entries :
                          IsQuestion(entries[n]) /\ entries[n].type \in ChoiceTypes})

\* C12 witness: the document of a shuffled quiz with two choice
\* interactions is complete.
C12_Witness ==
  /\ pc = "done"
  /\ quiz.shuffle_answers_xml = "true"
  /\ Cardinality(ChoiceInteractions) >= 2

\* with `open` group sections open before part n of doc, no group section
\* opens inside another from there on, none closes that is not open, and
\* none is open at the end
RECURSIVE SectionsAreFlat(_, _, _)
SectionsAreFlat(doc, n, open) ==
  IF n > Len(doc) THEN open = 0
  ELSE IF doc[n].tag = "GROUP_START" THEN open = 0 /\ SectionsAreFlat(doc, n + 1, 1)
  ELSE IF doc[n].tag = "GROUP_END" THEN open = 1 /\ SectionsAreFlat(doc, n + 1, 0)
  ELSE SectionsAreFlat(doc, n + 1, open)

\* the identifiers of the items that start in doc[a..b], in order
ItemIdentifiers(doc, a, b) ==
  LET IsStart(part) == part.tag = "START_ITEM"
      starts == SelectSeq(SubSeq(doc, a, b), IsStart)
  IN [k \in 1..Len(starts) |-> starts[k].identifier]

\* the identifier of the item of a Question or TextRegion entry
EntryItemIdentifier(x) ==
  IF IsTextRegion(x) THEN Ident("qtimaker_text_", x.id)
  ELSE Ident("qtimaker_question_", x.id)

\* C13: in the returned document each GroupStart/GroupEnd pair is one
\* section that opens before and closes after exactly the items of the
\* enclosed entries, with pick as its selection number and
\* points_per_question as its annotation; at every prefix of the document
\* at most one such section is open, and at the end none is.
C13_GroupsAreFlatSections ==
  pc = "done" =>
    /\ SectionsAreFlat(xml, 1, 0)
    /\ \A s \in DOMAIN entries :
         IsGroupStart(entries[s]) =>
           LET e == GroupEndOf(entries, s)
               group == entries[s].group
               opens == {a \in DOMAIN xml :
                           /\ xml[a].tag = "GROUP_START"
                           /\ xml[a].identifier = Ident("qtimaker_group_", group.id)}
           IN /\ Cardinality(opens) = 1
              /\ \A a \in opens :
                   LET b == CHOOSE m \in a..Len(xml) :
                              /\ xml[m].tag = "GROUP_END"
                              /\ \A n \in a..(m - 1) : xml[n].tag # "GROUP_END"
                   IN /\ xml[a].selectionNumber = group.pick
                      /\ xml[a].points_per_item = group.points_per_question
                      /\ ItemIdentifiers(xml, a, b)
                           = [k \in 1..(e - s - 1) |-> EntryItemIdentifier(entries[s + k])]

\* C13 witness: the document of a quiz with a question before a group and
\* a question in it is complete, the group's pick differing from its
\* points.
C13_Witness ==
  /\ pc = "done"
  /\ \E s \in DOMAIN entries :
       /\ s > 1
       /\ IsGroupStart(entries[s])
       /\ GroupEndOf(entries, s) = s + 2
       /\ entries[s].group.pick # entries[s].group.points_per_question
  /\ \E n \in DOMAIN entries : IsQuestion(entries[n]) /\ ~Enclosed(entries, n)

\* C20: every value of the correct response declared for a true/false,
\* multiple choice or multiple answers item is the identifier of one of
\* the simpleChoices of that item's choiceInteraction.
C20_CorrectResponseNamesEmittedChoice ==
  \A s \in ItemsOfType(ChoiceTypes) :
    LET body == ItemPart(xml, s, "ITEM_BODY")
    IN \A k \in DOMAIN CorrectResponse(xml, s) :
         \E j \in DOMAIN body.choices : CorrectResponse(xml, s)[k] = body.choices[j]

\* the entry is a Question of one of the seven types, a GroupStart, a
\* GroupEnd or a TextRegion
Covered(x) ==
  \/ IsQuestion(x) /\ x.type \in QuestionTypes
  \/ IsGroupStart(x)
  \/ IsGroupEnd(x)
  \/ IsTextRegion(x)

\* C14: a call that has got past an entry has found it covered; at a
\* question of a type outside the seven, or at an entry of no known class,
\* the call raises and returns nothing, and when it raises at a question
\* nothing is in xml for that question beyond the start of its item: no
\* stage has encoded it by default.
C14_UncoveredIsFatal ==
  /\ pc = "items" => \A n \in 1..(i - 1) : Covered(entries[n])
  /\ pc = "done" => \A n \in DOMAIN entries : Covered(entries[n])
  /\ pc = "raised" =>
       /\ ~Covered(entries[i])
       /\ result.returned = None
       /\ result.raised # None
       /\ IsQuestion(entries[i]) =>
            \A s \in ItemStarts(xml) :
              xml[s].identifier = Ident("qtimaker_question_", entries[i].id) =>
                s = Len(xml)

\* the title markers written into quiz_text so far, in order
TitleMarkers ==
  LET IsTitle(l) == l.line = "Title" IN SelectSeq(route.quiz_text, IsTitle)

\* the number of questions the loop of generate_quiz has been through
QuestionsWritten ==
  IF route.pc \in {"idle", "start"} THEN 0
  ELSE IF route.pc = "questions" THEN route.idx - 1
  ELSE Len(request.questions)

\* the identifiers of the question items of the document, in order
QuestionItemIdentifiers ==
  LET IsQuestionItem(part) ==
        part.tag = "START_ITEM" /\ part.identifier[1] = "qtimaker_question_"
      starts == SelectSeq(xml, IsQuestionItem)
  IN [k \in 1..Len(starts) |-> starts[k].identifier]

\* C16: generate_quiz has written one title marker per question it has
\* been through, no two markers the same, whatever the questions' ids,
\* texts and choices; the document assessment_v2 returns has one question
\* item per Question entry, in entry order, no two with the same
\* identifier.
C16_QuestionsAreNeverMerged ==
  /\ Len(TitleMarkers) = QuestionsWritten
  /\ \A a, b \in DOMAIN TitleMarkers : a # b => TitleMarkers[a] # TitleMarkers[b]
  /\ pc = "done" =>
       LET questions == SelectSeq(entries, IsQuestion)
       IN /\ QuestionItemIdentifiers
               = [k \in 1..Len(questions) |-> EntryItemIdentifier(questions[k])]
          /\ \A a, b \in DOMAIN QuestionItemIdentifiers :
               a # b => QuestionItemIdentifiers[a] # QuestionItemIdentifiers[b]

\* C16 witness: a request with the same question twice, id included, was
\* answered with the archive.
C16_Witness ==
  /\ route.pc = "done"
  /\ route.response = Some(FileResponse("tmp.zip"))
  /\ Len(request.questions) = 2
  /\ request.questions[1] = request.questions[2]

\* a multiple_choice or true_false question of the request with choices
\* and a correct_answer that is absent or no index of a choice
ZeroCorrect(question) ==
  /\ question.type \in {"multiple_choice", "true_false"}
  /\ question.choices # None
  /\ \A k \in 0..(Len(question.choices[1]) - 1) : Some(k) # question.correct_answer

C18_StagesFailWhole ==
  /\ pc = "raised" => result.returned = None
  /\ (route.pc = "done" /\ route.response[1].status_code # 200) => route.files = {}
  /\ (route.pc = "done" /\ route.response[1].status_code = 200)
       => route.files = {[name |-> "tmp.zip", content |-> "archive"]}

\* C15: when a caller's second call of assessment_v2 on the same Quiz is
\* over, it has returned, or raised, what the first call did, whatever the
\* other caller's calls did before, between and during the two.
C15_GenerationIsDeterministic ==
  \A c \in DOMAIN calls :
    (calls[c].first # None /\ calls[c].pc \in {"done", "raised"})
      => calls[c].result = calls[c].first[1]

\* C15 witness: a caller's second call has returned a document with an
\* item while the other caller, on another quiz, is inside its second loop.
C15_Witness ==
  /\ calls # <<>>
  /\ calls[1].first # None
  /\ calls[1].pc = "done"
  /\ Len(calls[1].quiz.questions_and_delims) = 2
  /\ calls[2].quiz # calls[1].quiz
  /\ calls[2].pc = "items"
  /\ calls[2].i = 2

\* what the second loop has appended after n entries of a quiz whose
\* first n entries are covered
RECURSIVE EntriesXml(_, _)
EntriesXml(q, n) ==
  IF n = 0 THEN <<>>
  ELSE EntriesXml(q, n - 1) \o EntryXml(q, q.questions_and_delims[n])

\* the entries of q at which the second loop raises
RaisingEntries(q) ==
  {n \in DOMAIN q.questions_and_delims : EntryRaises(q, q.questions_and_delims[n]) # None}

\* what assessment_v2(q, ...) returns or raises when it runs alone
Alone(q) ==
  IF RaisingEntries(q) # {}
  THEN LET n == CHOOSE k \in RaisingEntries(q) : \A m \in RaisingEntries(q) : k <= m
       IN [returned |-> None, raised |-> EntryRaises(q, q.questions_and_delims[n])]
  ELSE [returned |->
          Some(<<BEFORE_ITEMS("assessment_identifier", "title_xml")>>
                 \o EntriesXml(q, Len(q.questions_and_delims))
                 \o <<AFTER_ITEMS(TotalPoints(q.questions_and_delims,
                                              Len(q.questions_and_delims)))>>),
        raised |-> None]

\* C19: however the steps of the two callers interleave, no step changes
\* the Quiz of a call, a call inside its second loop has in xml what it
\* has when running alone, and a call that is over has returned or raised
\* what it does alone.
C19_ConcurrentCallsDoNotInterfere ==
  /\ [](\A c \in DOMAIN calls :
          /\ (calls[c].pc = "items" /\ RaisingEntries(calls[c].quiz) = {})
               => calls[c].xml
                    = <<BEFORE_ITEMS("assessment_identifier", "title_xml")>>
                        \o EntriesXml(calls[c].quiz, calls[c].i - 1)
          /\ calls[c].pc \in {"done", "raised"} => calls[c].result = Alone(calls[c].quiz))
  /\ [][\A c \in DOMAIN calls : calls'[c].quiz = calls[c].quiz]_vars

\* C19 witness: one call has returned its document while the other, on
\* another quiz, has emitted its first item and not yet its second.
C19_Witness ==
  /\ calls # <<>>
  /\ calls[1].pc = "done"
  /\ calls[1].first = None
  /\ calls[2].first = None
  /\ calls[2].pc = "items"
  /\ calls[2].i = 2
  /\ Len(calls[2].quiz.questions_and_delims) = 2
  /\ calls[1].quiz # calls[2].quiz

\* the variables the item started at s declares: RESPONSE, SCORE and
\* MAXSCORE in ITEM_METADATA, SCORE in the outcomeDeclaration of a text item
DeclaredVariables(doc, s) ==
  (IF ItemParts(doc, s, "ITEM_METADATA") # {} THEN {"RESPONSE", "SCORE", "MAXSCORE"} ELSE {})
    \cup (IF ItemParts(doc, s, "OUTCOME_DECLARATION") # {} THEN {"SCORE"} ELSE {})

\* the variables the item started at s refers to or assigns: RESPONSE in
\* the interaction and in every condition, the assigned outcome in every
\* setOutcomeValue, SCORE in a sum
UsedVariables(doc, s) ==
  LET rc == ItemPart(doc, s, "RESPONSE_PROCESSING").responseCondition
      actions == UNION {{rc[k].actions[a] : a \in DOMAIN rc[k].actions} : k \in DOMAIN rc}
  IN (IF ItemPart(doc, s, "ITEM_BODY").interaction # "none" THEN {"RESPONSE"} ELSE {})
       \cup (IF \E k \in DOMAIN rc : rc[k].tag = "responseIf" THEN {"RESPONSE"} ELSE {})
       \cup {a.identifier : a \in actions}
       \cup {"SCORE" : a \in {b \in actions : b.op = "sum"}}

\* C21: every variable an item of the returned document refers to or
\* assigns is declared in that item.
C21_UsedVariablesAreDeclared ==
  pc = "done" =>
    \A s \in ItemStarts(xml) : UsedVariables(xml, s) \subseteq DeclaredVariables(xml, s)

\* C22: every responseCondition of the returned document has exactly one
\* responseIf and at most one responseElse.
C22_OneIfAtMostOneElse ==
  pc = "done" =>
    \A s \in ItemStarts(xml) :
      LET rc == ItemPart(xml, s, "RESPONSE_PROCESSING").responseCondition
      IN /\ Cardinality({k \in DOMAIN rc : rc[k].tag = "responseIf"}) = 1
         /\ Cardinality({k \in DOMAIN rc : rc[k].tag = "responseElse"}) <= 1

\* the positions of the document that carry the identifier of an item, a
\* text item or a group section
IdentifiedParts == {n \in DOMAIN xml : xml[n].tag \in {"START_ITEM", "GROUP_START"}}

\* C23: in the returned document no two of the identifiers of items, text
\* items and group sections are the same, and no two simpleChoices of one
\* choiceInteraction have the same identifier.
C23_IdentifiersAreDistinct ==
  pc = "done" =>
    /\ \A a, b \in IdentifiedParts : a # b => xml[a].identifier # xml[b].identifier
    /\ \A n \in ChoiceInteractions :
         \A a, b \in DOMAIN xml[n].choices : a # b => xml[n].choices[a] # xml[n].choices[b]

\* C23 witness: the document of a quiz whose first question, group and
\* text region all have the model id 1 is complete.
C23_Witness ==
  /\ pc = "done"
  /\ \E q, g, t \in DOMAIN entries :
       /\ IsQuestion(entries[q]) /\ entries[q].id = 1
       /\ IsGroupStart(entries[g]) /\ entries[g].group.id = 1
       /\ IsTextRegion(entries[t]) /\ entries[t].id = 1

\* C24: the item of an auto-scored question declares SCORE with default 0
\* and MAXSCORE with the question's points_possible, and response
\* processing leaves SCORE at 0 or at points_possible.
C24_ScoreIsZeroOrPointsPossible ==
  \A s \in ItemsOfType(AutoScoredTypes) :
    LET declaration == ItemPart(xml, s, "ITEM_METADATA")
    IN /\ declaration.SCORE = 0
       /\ declaration.MAXSCORE = QuestionOf(s).points_possible
       /\ Processed(s) =>
            /\ session[1].SCORE \in {0, QuestionOf(s).points_possible}
            /\ session[1].SCORE <= declaration.MAXSCORE

\* C24 witness: a short answer question worth two points has awarded them.
C24_Witness ==
  \E s \in ItemsOfType({"short_answer_question"}) :
    /\ Processed(s)
    /\ QuestionOf(s).points_possible = 2
    /\ session[1].SCORE = 2

\* the numbered question lines of quiz_text for question number idx
QuestionLinesOf(idx) ==
  {n \in DOMAIN route.quiz_text :
     route.quiz_text[n].line = "Question" /\ route.quiz_text[n].idx = idx}

\* C25: every question generate_quiz has been through has exactly one
\* numbered question line in the quiz markup, followed by an answer line,
\* whatever the question's type string.
C25_EveryQuestionIsWritten ==
  request # None =>
    \A idx \in 1..QuestionsWritten :
      /\ Cardinality(QuestionLinesOf(idx)) = 1
      /\ \A n \in QuestionLinesOf(idx) :
           /\ n < Len(route.quiz_text)
           /\ route.quiz_text[n + 1].line \in {"Choice", "Answer", "Essay"}

\* C26: a request with no questions is answered with status 400 and
\* nothing else: no quiz markup is built, no quiz is parsed, no document
\* is generated and no file is written, before and after the answer.
C26_EmptyRequestIsRejectedFirst ==
  (request # None /\ Len(request.questions) = 0) =>
    /\ route.pc \in {"start", "done"}
    /\ route.quiz_text = <<>>
    /\ route.files = {}
    /\ pc = "idle" /\ xml = <<>>
    /\ route.pc = "done" => route.response[1].status_code = 400

\* C26 witness: generate_quiz has answered a request with no questions.
C26_Witness ==
  /\ request # None
  /\ Len(request.questions) = 0
  /\ route.pc = "done"
  /\ route.response = Some(HTTPException(400, "No questions provided"))

(* ====================================================================== *)
(* The web routes' question generation (src/qtimaker/web/routes/          *)
(* questions.py): generate_questions_with_docling asks generate_with_     *)
(* gemini for questions chunk by chunk; generate_with_gemini asks the     *)
(* language model, at most max_retries times.                             *)
(* ====================================================================== *)

\* max_retries = 2
max_retries == 2

\* the list of k questions in a model response to attempt a on chunk text
ModelQuestions(text, a, k) == [j \in 1..k |-> [question_text |-> <<text, a, j>>]]

\* what one attempt can meet: model.generate_content, response.text or
\* json.loads raises; the response text has no {...}; or it is a JSON object
\* with a list of up to num + 1 questions
ModelResponses(text, a, num) ==
  {[kind |-> "raise"], [kind |-> "no_match"]}
    \cup {[kind |-> "questions", questions |-> ModelQuestions(text, a, k)] :
            k \in 0..(num + 1)}

\* generate_with_gemini(text, num) at the head of its loop
NewGemini(text, num) ==
  [pc |-> "attempt", text |-> text, num |-> num, attempt |-> 0,
   responses |-> <<>>, returned |-> None]

\* one iteration of: for attempt in range(max_retries).  After the last
\* iteration the function has always returned, so the return [] below the
\* loop is never reached.
Attempt ==
  /\ gemini # None
  /\ gemini.pc = "attempt"
  /\ gemini.attempt < max_retries
  /\ \E r \in ModelResponses(gemini.text, gemini.attempt, gemini.num) :
       LET called == [gemini EXCEPT !.responses = Append(@, r)]
           again == [called EXCEPT !.attempt = @ + 1]
           last == gemini.attempt = max_retries - 1
           Return(l) == [called EXCEPT !.pc = "returned", !.returned = Some(l)]
       IN gemini' =
            IF r.kind = "raise"
            THEN IF last THEN Return(<<>>) ELSE again
            ELSE IF r.kind = "no_match"
            THEN Return(<<>>)
            ELSE IF Len(r.questions) < gemini.num /\ ~last
            THEN again
            ELSE Return(r.questions)
  /\ UNCHANGED <<quiz, pc, i, points_possible, xml, result, session, request, route,
                 calls, generation, chunking, upload>>

\* chunks_to_use = min(len(chunks), 10)
chunks_to_use(chunks) == IF Len(chunks) < 10 THEN Len(chunks) ELSE 10

\* questions_per_chunk = max(2, request.num_questions // chunks_to_use)
questions_per_chunk(num_questions, chunks) ==
  LET q == num_questions \div chunks_to_use(chunks) IN IF q > 2 THEN q ELSE 2

\* target_with_buffer = int(request.num_questions * 1.3)
target_with_buffer(num_questions) == (num_questions * 13) \div 10

\* generate_questions_with_docling at line 69, the document parsed and
\* split into chunks
NewGeneration(num_questions, chunks) ==
  [pc |-> "chunks", num_questions |-> num_questions, chunks |-> chunks, i |-> 1,
   all_questions |-> <<>>, response |-> None]

\* the body of: for i, chunk in enumerate(chunks[:chunks_to_use]), up to
\* the await
RequestFromChunk ==
  /\ generation # None
  /\ generation.pc = "chunks"
  /\ generation.i <= chunks_to_use(generation.chunks)
  /\ Len(generation.all_questions) < target_with_buffer(generation.num_questions)
  /\ LET remaining == target_with_buffer(generation.num_questions)
                         - Len(generation.all_questions)
         per_chunk == questions_per_chunk(generation.num_questions, generation.chunks) + 1
         num_to_gen == IF per_chunk < remaining THEN per_chunk ELSE remaining
     IN gemini' = NewGemini(generation.chunks[generation.i], num_to_gen)
  /\ generation' = [generation EXCEPT !.pc = "gemini"]
  /\ UNCHANGED <<quiz, pc, i, points_possible, xml, result, session, request, route,
                 calls, chunking, upload>>

\* all_questions.extend(chunk_questions), and on to the next chunk
ExtendFromChunk ==
  /\ generation # None
  /\ generation.pc = "gemini"
  /\ gemini.pc = "returned"
  /\ generation' = [generation EXCEPT !.pc = "chunks", !.i = @ + 1,
                                      !.all_questions = @ \o gemini.returned[1]]
  /\ gemini' = None
  /\ UNCHANGED <<quiz, pc, i, points_possible, xml, result, session, request, route,
                 calls, chunking, upload>>

\* the loop is over, or left by the break
LeaveLoop ==
  /\ generation # None
  /\ generation.pc = "chunks"
  /\ \/ generation.i > chunks_to_use(generation.chunks)
     \/ Len(generation.all_questions) >= target_with_buffer(generation.num_questions)
  /\ generation' = [generation EXCEPT !.pc = "shortage"]
  /\ UNCHANGED <<quiz, pc, i, points_possible, xml, result, session, request, route,
                 calls, gemini, chunking, upload>>

\* if len(all_questions) < request.num_questions and chunks: one more
\* call, on chunks[0]
RequestShortage ==
  /\ generation # None
  /\ generation.pc = "shortage"
  /\ Len(generation.all_questions) < generation.num_questions
  /\ Len(generation.chunks) > 0
  /\ gemini' = NewGemini(generation.chunks[1],
                         generation.num_questions - Len(generation.all_questions))
  /\ generation' = [generation EXCEPT !.pc = "extra"]
  /\ UNCHANGED <<quiz, pc, i, points_possible, xml, result, session, request, route,
                 calls, chunking, upload>>

\* all_questions.extend(extra_q)
ExtendExtra ==
  /\ generation # None
  /\ generation.pc = "extra"
  /\ gemini.pc = "returned"
  /\ generation' = [generation EXCEPT !.pc = "format",
                                      !.all_questions = @ \o gemini.returned[1]]
  /\ gemini' = None
  /\ UNCHANGED <<quiz, pc, i, points_possible, xml, result, session, request, route,
                 calls, chunking, upload>>

\* the entries of formatted: all_questions[:num_questions] with ids q1, q2, ...
Formatted(all_questions, num_questions) ==
  LET n == IF Len(all_questions) < num_questions THEN Len(all_questions)
           ELSE num_questions
  IN [idx \in 1..n |->
        [id |-> <<"q", idx>>, type |-> "multiple_choice",
         text |-> all_questions[idx].question_text]]

\* Format for frontend, and the JSONResponse
FormatQuestions ==
  /\ generation # None
  /\ \/ generation.pc = "format"
     \/ /\ generation.pc = "shortage"
        /\ ~(Len(generation.all_questions) < generation.num_questions
               /\ Len(generation.chunks) > 0)
  /\ LET formatted == Formatted(generation.all_questions, generation.num_questions)
     IN generation' =
          [generation EXCEPT
             !.pc = "done",
             !.response = Some([questions |-> formatted,
                                total_generated |-> Len(formatted)])]
  /\ UNCHANGED <<quiz, pc, i, points_possible, xml, result, session, request, route,
                 calls, gemini, chunking, upload>>

\* nothing of assessment_v2 or generate_quiz is under way
CoreIdle ==
  /\ quiz = Quiz(<<>>, FALSE)
  /\ xml = <<>>
  /\ points_possible = 0
  /\ i = 1
  /\ pc = "idle"
  /\ result = NoResult
  /\ session = None
  /\ request = None
  /\ route = RouteIdle
  /\ calls = <<>>

\* generate_questions_with_docling with a request for up to MaxNumQuestions
\* questions on a document of up to MaxChunks chunks
InitQuestions ==
  /\ CoreIdle
  /\ generation \in {NewGeneration(n, [c \in 1..m |-> c]) :
                       n \in 0..MaxNumQuestions, m \in 1..MaxChunks}
  /\ gemini = None
  /\ chunking = None
  /\ upload = None

NextQuestions ==
  \/ RequestFromChunk
  \/ Attempt
  \/ ExtendFromChunk
  \/ LeaveLoop
  \/ RequestShortage
  \/ ExtendExtra
  \/ FormatQuestions

SpecQuestions == InitQuestions /\ [][NextQuestions]_vars

\* the questions an attempt yields: those of the response, none when the
\* response has no JSON object
Yield(r) == IF r.kind = "questions" THEN r.questions ELSE <<>>

\* C27: generate_with_gemini makes at most max_retries model calls; once
\* it has returned, every attempt before the last that raised or yielded
\* fewer than num questions was followed by another attempt; it returns a
\* list, the empty one when the last attempt raised.
C27_RetriesUntilEnoughOrLast ==
  gemini # None =>
    /\ Len(gemini.responses) <= max_retries
    /\ gemini.pc = "returned" =>
         /\ gemini.returned # None
         /\ \A a \in 1..Len(gemini.responses) :
              (/\ a < max_retries
               /\ \/ gemini.responses[a].kind = "raise"
                  \/ Len(Yield(gemini.responses[a])) < gemini.num)
                => a < Len(gemini.responses)
         /\ gemini.responses[Len(gemini.responses)].kind = "raise"
              => gemini.returned[1] = <<>>

\* C28: the response of generate_questions_with_docling has num_questions
\* questions, with the ids q1, q2, ... in order.
C28_ExactlyNumQuestions ==
  (generation # None /\ generation.pc = "done") =>
    LET questions == generation.response[1].questions
    IN /\ Len(questions) = generation.num_questions
       /\ \A idx \in DOMAIN questions : questions[idx].id = <<"q", idx>>

(* ====================================================================== *)
(* DoclingService._chunk_text (src/qtimaker/web/services/                 *)
(* docling_service.py).  A text is kept as its length, the positions of   *)
(* its sentence ends (a character of .!? followed by white space) and the *)
(* stretch of it that is white space only.                                *)
(* ====================================================================== *)

\* overlap: int = 200, also what _parse_with_docling passes
overlap == 200

\* chunk_size: the default 1000, and the 3000 of _parse_with_docling
ChunkSizes == {1000, 3000}

\* the texts of the bounded model: a sentence end at every position that
\* is offset modulo period (none when period is 0), white space only on
\* [blank[1], blank[2])
Texts ==
  LET lengths == {l \in 0..MaxTextLen : l % 500 \in {0, 499}} \cup {MaxTextLen}
      patterns == {<<0, 0>>, <<50, 0>>, <<170, 30>>, <<900, 0>>, <<1000, 0>>, <<1098, 0>>}
      blanks(l) == {<<0, 0>>, <<700, 2500>>, <<0, l>>}
  IN UNION {{[len |-> l, period |-> pt[1], offset |-> pt[2], blank |-> b] :
               pt \in patterns, b \in blanks(l)} : l \in lengths}

\* text[x] is one of .!? and text[x + 1] is white space
IsSentenceEnd(text, x) ==
  /\ text.period > 0
  /\ x % text.period = text.offset
  /\ x + 1 < text.len
  /\ ~(text.blank[1] <= x /\ x < text.blank[2])

\* [m.start() + end - 100 for m in re.finditer(r'[.!?]\s+', text[end-100:end+100])]:
\* a match lies inside the slice, white space included
sentence_ends(text, end) ==
  LET stop == IF end + 100 < text.len THEN end + 100 ELSE text.len
  IN {x \in (end - 100)..(stop - 2) : IsSentenceEnd(text, x)}

\* min(sentence_ends, key=lambda x: abs(x - end)): the first of the closest
closest(ends, end) ==
  LET Abs(d) == IF d < 0 THEN -d ELSE d
      near == {x \in ends : \A y \in ends : Abs(x - end) <= Abs(y - end)}
  IN CHOOSE x \in near : \A y \in near : x <= y

\* text[start:end].strip() is not empty
HasContent(text, start, end) ==
  LET stop == IF end < text.len THEN end ELSE text.len
  IN start < stop /\ ~(text.blank[1] <= start /\ stop <= text.blank[2])

\* NextIndex counting the empty chunks too
NextIndex_CountsEmpty(index, appended) == index + 1

\* index += 1, inside if chunk_text
NextIndex(index, appended) == IF appended THEN index + 1 ELSE index

\* _chunk_text(text, chunk_size, overlap) at its first line
NewChunking(text, chunk_size) ==
  [pc |-> "start", text |-> text, chunk_size |-> chunk_size, start |-> 0,
   index |-> 0, chunks |-> <<>>]

\* if not text or len(text) < chunk_size: return the text as one chunk
ReturnWhole ==
  /\ chunking # None
  /\ chunking.pc = "start"
  /\ chunking.text.len < chunking.chunk_size
  /\ chunking' = [chunking EXCEPT
                    !.pc = "done",
                    !.chunks = <<[index |-> 0, start |-> 0, end |-> chunking.text.len]>>]
  /\ UNCHANGED <<quiz, pc, i, points_possible, xml, result, session, request, route,
                 calls, gemini, generation, upload>>

\* chunks = [], start = 0, index = 0
EnterLoop ==
  /\ chunking # None
  /\ chunking.pc = "start"
  /\ chunking.text.len >= chunking.chunk_size
  /\ chunking' = [chunking EXCEPT !.pc = "loop"]
  /\ UNCHANGED <<quiz, pc, i, points_possible, xml, result, session, request, route,
                 calls, gemini, generation, upload>>

\* one iteration of: while start < len(text)
ChunkStep ==
  /\ chunking # None
  /\ chunking.pc = "loop"
  /\ chunking.start < chunking.text.len
  /\ LET text == chunking.text
         start == chunking.start
         boundary == start + chunking.chunk_size
         ends == IF boundary < text.len THEN sentence_ends(text, boundary) ELSE {}
         end == IF ends # {} THEN closest(ends, boundary) ELSE boundary
         appended == HasContent(text, start, end)
     IN chunking' =
          [chunking EXCEPT
             !.chunks = IF appended
                        THEN Append(@, [index |-> chunking.index,
                                        start |-> start, end |-> end])
                        ELSE @,
             !.index = NextIndex(@, appended),
             !.start = IF end < text.len THEN end - overlap ELSE end]
  /\ UNCHANGED <<quiz, pc, i, points_possible, xml, result, session, request, route,
                 calls, gemini, generation, upload>>

\* return chunks
ReturnChunks ==
  /\ chunking # None
  /\ chunking.pc = "loop"
  /\ chunking.start >= chunking.text.len
  /\ chunking' = [chunking EXCEPT !.pc = "done"]
  /\ UNCHANGED <<quiz, pc, i, points_possible, xml, result, session, request, route,
                 calls, gemini, generation, upload>>

InitChunkText ==
  /\ CoreIdle
  /\ chunking \in {NewChunking(t, c) : t \in Texts, c \in ChunkSizes}
  /\ gemini = None
  /\ generation = None
  /\ upload = None

NextChunkText ==
  \/ ReturnWhole
  \/ EnterLoop
  \/ ChunkStep
  \/ ReturnChunks

\* the call runs on while it has a step to take
SpecChunkText == InitChunkText /\ [][NextChunkText]_vars /\ WF_vars(NextChunkText)

\* C29: _chunk_text returns; every iteration of its loop moves start
\* forward; the chunks it holds have the indexes 0, 1, 2, ... in order.
C29_ChunkingTerminates ==
  /\ <>(chunking.pc = "done")
  /\ [][(chunking.pc = "loop" /\ chunking'.pc = "loop")
          => chunking'.start > chunking.start]_vars
  /\ [](\A n \in DOMAIN chunking.chunks : chunking.chunks[n].index = n - 1)

\* C29 witness: _chunk_text has returned three chunks or more, one of them
\* ended at a sentence end before its chunk_size, and one stretch of white
\* space was skipped between two chunks.
C29_Witness ==
  /\ chunking.pc = "done"
  /\ Len(chunking.chunks) >= 3
  /\ \E n \in DOMAIN chunking.chunks :
       /\ chunking.chunks[n].end < chunking.chunks[n].start + chunking.chunk_size
       /\ chunking.chunks[n].end < chunking.text.len
  /\ \E n \in DOMAIN chunking.chunks :
       /\ n > 1
       /\ chunking.chunks[n].start > chunking.chunks[n - 1].end

(* ====================================================================== *)
(* upload_document (src/qtimaker/web/routes/upload.py).  The storage is   *)
(* the set of directories under UPLOAD_DIR, each with the set of its      *)
(* files.                                                                 *)
(* ====================================================================== *)

\* MAX_UPLOAD_SIZE = 100 * 1024 * 1024
MAX_UPLOAD_SIZE == 100 * 1024 * 1024

allowed_extensions ==
  {".pdf", ".docx", ".doc", ".pptx", ".ppt", ".xlsx", ".xls",
   ".html", ".htm", ".md", ".xml",
   ".png", ".jpg", ".jpeg", ".tiff", ".tif", ".bmp",
   ".wav", ".mp3", ".m4a"}

\* the file names of the bounded model
Filenames == {"notes.pdf", "NOTES.PDF", "setup.exe", "README"}

\* Path(file.filename).suffix.lower()
file_ext(filename) ==
  CASE filename = "notes.pdf" -> ".pdf"
    [] filename = "NOTES.PDF" -> ".pdf"
    [] filename = "setup.exe" -> ".exe"
    [] OTHER -> ""

\* the uploaded files of the bounded model: len(content) is nothing, the
\* limit, or one more
UploadFiles ==
  {[filename |-> f, size |-> n] :
     f \in Filenames, n \in {0, MAX_UPLOAD_SIZE, MAX_UPLOAD_SIZE + 1}}

\* upload_document(file) at its first line, the n-th call, on the storage
\* the calls before left
NewUpload(file, n, storage) ==
  [pc |-> "start", file |-> file, n |-> n, doc_id |-> None, storage |-> storage,
   storage_at_call |-> storage, response |-> None]

\* if file_ext not in allowed_extensions: raise HTTPException(400)
RejectExtension ==
  /\ upload # None
  /\ upload.pc = "start"
  /\ file_ext(upload.file.filename) \notin allowed_extensions
  /\ upload' = [upload EXCEPT
                  !.pc = "done",
                  !.response = Some(HTTPException(400, "File type not supported"))]
  /\ UNCHANGED <<quiz, pc, i, points_possible, xml, result, session, request, route,
                 calls, gemini, generation, chunking>>

\* doc_id = str(uuid.uuid4()); doc_dir.mkdir(exist_ok=True), up to the
\* await of file.read()
MakeDir ==
  /\ upload # None
  /\ upload.pc = "start"
  /\ file_ext(upload.file.filename) \in allowed_extensions
  /\ \E id \in 1..MaxUploads :
       /\ \A d \in upload.storage : d.doc_id # id
       /\ upload' = [upload EXCEPT
                       !.pc = "read",
                       !.doc_id = Some(id),
                       !.storage = @ \cup {[doc_id |-> id, files |-> {}]}]
  /\ UNCHANGED <<quiz, pc, i, points_possible, xml, result, session, request, route,
                 calls, gemini, generation, chunking>>

\* if len(content) > MAX_UPLOAD_SIZE: raise HTTPException(413)
RejectSize ==
  /\ upload # None
  /\ upload.pc = "read"
  /\ upload.file.size > MAX_UPLOAD_SIZE
  /\ upload' = [upload EXCEPT
                  !.pc = "done",
                  !.response = Some(HTTPException(413, "File too large"))]
  /\ UNCHANGED <<quiz, pc, i, points_possible, xml, result, session, request, route,
                 calls, gemini, generation, chunking>>

\* file_path.write_bytes(content), up to the await of parse_document
WriteBytes ==
  /\ upload # None
  /\ upload.pc = "read"
  /\ upload.file.size <= MAX_UPLOAD_SIZE
  /\ LET doc_dir == [doc_id |-> upload.doc_id[1], files |-> {}]
     IN upload' = [upload EXCEPT
                     !.pc = "parse",
                     !.storage = (@ \ {doc_dir})
                                   \cup {[doc_dir EXCEPT !.files = {upload.file}]}]
  /\ UNCHANGED <<quiz, pc, i, points_possible, xml, result, session, request, route,
                 calls, gemini, generation, chunking>>

\* the try around parse_document and store_document: the JSONResponse
\* with status "parsed", or the one with status "error" and code 500
ParseDocument ==
  /\ upload # None
  /\ upload.pc = "parse"
  /\ \E status_code \in {200, 500} :
       upload' = [upload EXCEPT
                    !.pc = "done",
                    !.response = Some([status_code |-> status_code,
                                       detail |-> upload.doc_id[1]])]
  /\ UNCHANGED <<quiz, pc, i, points_possible, xml, result, session, request, route,
                 calls, gemini, generation, chunking>>

\* the next request to the route, on the storage as it is
UploadAgain ==
  /\ upload # None
  /\ upload.pc = "done"
  /\ upload.n < MaxUploads
  /\ \E file \in UploadFiles : upload' = NewUpload(file, upload.n + 1, upload.storage)
  /\ UNCHANGED <<quiz, pc, i, points_possible, xml, result, session, request, route,
                 calls, gemini, generation, chunking>>

InitUpload ==
  /\ CoreIdle
  /\ upload \in {NewUpload(file, 1, {}) : file \in UploadFiles}
  /\ gemini = None
  /\ generation = None
  /\ chunking = None

NextUpload ==
  \/ RejectExtension
  \/ MakeDir
  \/ RejectSize
  \/ WriteBytes
  \/ ParseDocument
  \/ UploadAgain

SpecUpload == InitUpload /\ [][NextUpload]_vars

\* C30: an upload answered with 400 or 413 has left the storage as it was
\* when the call began: no directory more, no file more.
C30_RejectedUploadLeavesStorage ==
  (/\ upload # None
   /\ upload.pc = "done"
   /\ upload.response[1].status_code \in {400, 413})
    => upload.storage = upload.storage_at_call

====
